---- MODULE Spec2Model ----
(***************************************************************************)
(* A model of mcp_ultimate_server.py: the UltimateHandler (connection      *)
(* cell, make_request, tool catalog, call_tool) and the WebServer's        *)
(* push-stream sessions (handle_sse, process_messages, sse_generator,      *)
(* handle_messages).                                                       *)
(*                                                                         *)
(* Conventions.  A Python string is a sequence of tokens; "/" and ":" are  *)
(* always tokens of their own, so startswith("http") and rstrip('/') act   *)
(* on tokens as they act on characters.  An Optional value is None (the    *)
(* empty sequence) or Some(v) (a one-element sequence).  A JSON argument   *)
(* value is a token; the tokens of Falsy are the values Python treats as   *)
(* false.                                                                  *)
(***************************************************************************)
EXTENDS Integers, Sequences, FiniteSets, TLC

\* ------------------------------------------------------------------ bounds

\* Requests POSTed to /messages over a run of several sessions.
MaxPosts == 2
\* Requests POSTed to /messages over a run of a single session.
MaxStreamPosts == 3
\* Requests POSTed to /messages over a run of two sessions that share the device.
MaxRacePosts == 3
\* Requests POSTed to /messages over a run of a server that also takes uploads.
MaxServerPosts == 2

\* ----------------------------------------------------------------- helpers

None == << >>
Some(v) == << v >>
IsNone(o) == o = << >>
Val(o) == o[1]

Range(s) == { s[i] : i \in 1..Len(s) }

RECURSIVE Join(_, _)
\* sep.join(ss)
Join(ss, sep) ==
  IF ss = << >> THEN << >>
  ELSE IF Len(ss) = 1 THEN ss[1]
  ELSE ss[1] \o << sep >> \o Join(Tail(ss), sep)

RECURSIVE RStripSlash(_)
\* s.rstrip('/')
RStripSlash(s) ==
  IF s # << >> /\ s[Len(s)] = "/" THEN RStripSlash(SubSeq(s, 1, Len(s) - 1)) ELSE s

\* s.startswith("http"); "httphost" is a host name that begins with these letters.
StartsWithHttp(s) == s # << >> /\ s[1] \in {"http", "https", "httphost"}

\* The JSON values Python's truth test rejects (0, null, false, "").
Falsy == {"0", "null", "false", "''"}
Truthy(v) == v \notin Falsy

\* f"{x}" of an Optional string.
Fmt(o) == IF IsNone(o) THEN << "None" >> ELSE Val(o)
\* f"{x}" of an Optional token (a tool name, a method).
FmtToken(o) == IF IsNone(o) THEN "None" ELSE Val(o)

\* An argument bag: a function from the keys present to their values.
Has(arguments, k) == k \in DOMAIN arguments

\* ---------------------------------------------------------- the connection

\* A normalisation that prefixes the scheme without looking.
set_base_url_AlwaysPrefix(url) ==
  LET b == RStripSlash(<< "http", ":", "/", "/" >> \o url)
  IN  [base_url |-> Some(b), api_base |-> Some(b \o << "/", "v1" >>)]

\* A normalisation that keeps trailing slashes.
set_base_url_KeepSlash(url) ==
  LET b == IF StartsWithHttp(url) THEN url ELSE << "http", ":", "/", "/" >> \o url
  IN  [base_url |-> Some(b), api_base |-> Some(b \o << "/", "v1" >>)]

\* UltimateHandler.set_base_url: the pair (base_url, api_base) it assigns.
set_base_url(url) ==
  LET u == IF StartsWithHttp(url) THEN url ELSE << "http", ":", "/", "/" >> \o url
      b == RStripSlash(u)
  IN  [base_url |-> Some(b), api_base |-> Some(b \o << "/", "v1" >>)]

\* ------------------------------------------------------------ Device Client

\* What the device (or the network) answers to one HTTP request.
\* status 0: the transport failed (DNS, connect, timeout).  json: the content
\* type is application/json.  valid: the body parses as JSON.  errs: the parsed
\* body has a non-empty "errors" list.
DeviceOutcomes ==
  { [status |-> 204, json |-> FALSE, valid |-> FALSE, errs |-> FALSE],
    [status |-> 200, json |-> TRUE,  valid |-> TRUE,  errs |-> FALSE],
    [status |-> 200, json |-> TRUE,  valid |-> TRUE,  errs |-> TRUE],
    [status |-> 200, json |-> TRUE,  valid |-> FALSE, errs |-> FALSE],
    [status |-> 200, json |-> FALSE, valid |-> FALSE, errs |-> FALSE],
    [status |-> 404, json |-> FALSE, valid |-> FALSE, errs |-> FALSE],
    [status |-> 0,   json |-> FALSE, valid |-> FALSE, errs |-> FALSE] }

\* The outcome standing for "no request was made".
NoOutcome == [status |-> 0, json |-> FALSE, valid |-> FALSE, errs |-> FALSE]

\* A result dict: its "errors" list and a rendering of its other keys.
Ok(body) == [errors |-> << >>, body |-> body]
Errs(msg) == [errors |-> << msg >>, body |-> << >>]

NoHostMessage ==
  << "No C64 host configured. Use 'ultimate_set_connection' tool to set connection." >>

StatusText(o) == IF o.status = 204 THEN "204" ELSE IF o.status = 200 THEN "200" ELSE "404"

\* The JSON body the device sent with a 200: the device's own "errors" list
\* may be empty or not.
DeviceJson(o) ==
  IF o.errs THEN [errors |-> << << "device error" >> >>, body |-> << "device body" >>]
  ELSE Ok(<< "device body" >>)

\* One request record of the HTTP log.
Request(verb, url, params, body) ==
  [verb |-> verb, url |-> url, params |-> params, body |-> body]

\* A client that knows no 204.
make_request_No204(api_base, method, endpoint, params, data, o) ==
  IF IsNone(api_base) \/ Val(api_base) = << >>
  THEN [result |-> Errs(NoHostMessage), requests |-> << >>]
  ELSE
    LET url == Val(api_base) \o << "/" >> \o endpoint
        res == IF o.status = 0 THEN Errs(<< "Request failed: ", "transport failure" >>)
               ELSE IF o.status = 200
                 THEN IF o.json
                      THEN (IF o.valid THEN DeviceJson(o)
                            ELSE Errs(<< "Request failed: ", "decode failure" >>))
                      ELSE Ok(<< "data", "hex" >>)
               ELSE Errs(<< "HTTP ", StatusText(o), ": ", "body text" >>)
    IN  [result |-> res, requests |-> << Request(method, url, params, data) >>]

\* A client that tries once more when the transport fails.
make_request_Retry(api_base, method, endpoint, params, data, o) ==
  IF IsNone(api_base) \/ Val(api_base) = << >>
  THEN [result |-> Errs(NoHostMessage), requests |-> << >>]
  ELSE
    LET url == Val(api_base) \o << "/" >> \o endpoint
        res == IF o.status = 0 THEN Errs(<< "Request failed: ", "transport failure" >>)
               ELSE IF o.status = 204 THEN Ok(<< "ok", "true" >>)
               ELSE IF o.status = 200
                 THEN IF o.json
                      THEN (IF o.valid THEN DeviceJson(o)
                            ELSE Errs(<< "Request failed: ", "decode failure" >>))
                      ELSE Ok(<< "data", "hex" >>)
               ELSE Errs(<< "HTTP ", StatusText(o), ": ", "body text" >>)
    IN  [result |-> res,
         requests |-> IF o.status = 0
                      THEN << Request(method, url, params, data), Request(method, url, params, data) >>
                      ELSE << Request(method, url, params, data) >>]

\* UltimateHandler.make_request: the result dict and the requests issued.  A
\* failure of the transport, and response.json() raising on a body that is not
\* JSON, are caught by the except and returned as "Request failed: ...".
make_request(api_base, method, endpoint, params, data, o) ==
  IF IsNone(api_base) \/ Val(api_base) = << >>
  THEN [result |-> Errs(NoHostMessage), requests |-> << >>]
  ELSE
    LET url == Val(api_base) \o << "/" >> \o endpoint
        res == IF o.status = 0 THEN Errs(<< "Request failed: ", "transport failure" >>)
               ELSE IF o.status = 204 THEN Ok(<< "ok", "true" >>)
               ELSE IF o.status = 200
                 THEN IF o.json
                      THEN (IF o.valid THEN DeviceJson(o)
                            ELSE Errs(<< "Request failed: ", "decode failure" >>))
                      ELSE Ok(<< "data", "hex" >>)
               ELSE Errs(<< "HTTP ", StatusText(o), ": ", "body text" >>)
    IN  [result |-> res, requests |-> << Request(method, url, params, data) >>]

\* --------------------------------------------------------- the tool catalog

\* The list get_tools builds: name, description and inputSchema of each Tool
\* (of a schema: its type, its properties with their types, its required list).
tools ==
  <<
    [name |-> "ultimate_set_connection",
     description |-> "Set the hostname and port of the Ultimate C64 device",
     inputSchema |-> [type |-> "object", properties |-> <<[name |-> "hostname", type |-> "string"], [name |-> "port", type |-> "integer"]>>, required |-> <<"hostname">>]],
    [name |-> "ultimate_get_connection",
     description |-> "Get the current connection details for the Ultimate C64 device",
     inputSchema |-> [type |-> "object", properties |-> <<>>, required |-> <<>>]],
    [name |-> "ultimate_version",
     description |-> "Get the current version of the Ultimate's REST API",
     inputSchema |-> [type |-> "object", properties |-> <<>>, required |-> <<>>]],
    [name |-> "ultimate_play_sid",
     description |-> "Play a SID file on the Ultimate",
     inputSchema |-> [type |-> "object", properties |-> <<[name |-> "file", type |-> "string"], [name |-> "song_number", type |-> "integer"]>>, required |-> <<"file">>]],
    [name |-> "ultimate_play_mod",
     description |-> "Play an Amiga MOD file on the Ultimate",
     inputSchema |-> [type |-> "object", properties |-> <<[name |-> "file", type |-> "string"]>>, required |-> <<"file">>]],
    [name |-> "ultimate_load_program",
     description |-> "Load a program into C64 memory (does not run it)",
     inputSchema |-> [type |-> "object", properties |-> <<[name |-> "file", type |-> "string"]>>, required |-> <<"file">>]],
    [name |-> "ultimate_run_program",
     description |-> "Load and run a program on the C64",
     inputSchema |-> [type |-> "object", properties |-> <<[name |-> "file", type |-> "string"]>>, required |-> <<"file">>]],
    [name |-> "ultimate_run_prg_binary",
     description |-> "Upload and run a PRG file. Accepts file path, base64-encoded binary data, or URL to download the PRG file.",
     inputSchema |-> [type |-> "object", properties |-> <<[name |-> "file_path", type |-> "string"], [name |-> "prg_data_base64", type |-> "string"], [name |-> "url", type |-> "string"]>>, required |-> <<>>]],
    [name |-> "ultimate_run_cartridge",
     description |-> "Load and run a cartridge file",
     inputSchema |-> [type |-> "object", properties |-> <<[name |-> "file", type |-> "string"]>>, required |-> <<"file">>]],
    [name |-> "ultimate_get_config_categories",
     description |-> "Get all configuration categories",
     inputSchema |-> [type |-> "object", properties |-> <<>>, required |-> <<>>]],
    [name |-> "ultimate_get_config_category",
     description |-> "Get configuration items in a specific category",
     inputSchema |-> [type |-> "object", properties |-> <<[name |-> "category", type |-> "string"]>>, required |-> <<"category">>]],
    [name |-> "ultimate_get_config_item",
     description |-> "Get specific configuration item details",
     inputSchema |-> [type |-> "object", properties |-> <<[name |-> "category", type |-> "string"], [name |-> "item", type |-> "string"]>>, required |-> <<"category", "item">>]],
    [name |-> "ultimate_set_config_item",
     description |-> "Set a configuration item value",
     inputSchema |-> [type |-> "object", properties |-> <<[name |-> "category", type |-> "string"], [name |-> "item", type |-> "string"], [name |-> "value", type |-> "string"]>>, required |-> <<"category", "item", "value">>]],
    [name |-> "ultimate_mount_disk",
     description |-> "Mount a disk image on a drive",
     inputSchema |-> [type |-> "object", properties |-> <<[name |-> "drive", type |-> "string"], [name |-> "file", type |-> "string"]>>, required |-> <<"drive", "file">>]],
    [name |-> "ultimate_unmount_disk",
     description |-> "Unmount a disk from a drive",
     inputSchema |-> [type |-> "object", properties |-> <<[name |-> "drive", type |-> "string"]>>, required |-> <<"drive">>]],
    [name |-> "ultimate_turn_drive_on",
     description |-> "Turn on a drive",
     inputSchema |-> [type |-> "object", properties |-> <<[name |-> "drive", type |-> "string"]>>, required |-> <<"drive">>]],
    [name |-> "ultimate_turn_drive_off",
     description |-> "Turn off a drive",
     inputSchema |-> [type |-> "object", properties |-> <<[name |-> "drive", type |-> "string"]>>, required |-> <<"drive">>]],
    [name |-> "ultimate_create_d64",
     description |-> "Create a D64 disk image",
     inputSchema |-> [type |-> "object", properties |-> <<[name |-> "path", type |-> "string"], [name |-> "tracks", type |-> "integer"], [name |-> "diskname", type |-> "string"]>>, required |-> <<"path">>]],
    [name |-> "ultimate_create_d71",
     description |-> "Create a D71 disk image",
     inputSchema |-> [type |-> "object", properties |-> <<[name |-> "path", type |-> "string"], [name |-> "diskname", type |-> "string"]>>, required |-> <<"path">>]],
    [name |-> "ultimate_create_d81",
     description |-> "Create a D81 disk image",
     inputSchema |-> [type |-> "object", properties |-> <<[name |-> "path", type |-> "string"], [name |-> "diskname", type |-> "string"]>>, required |-> <<"path">>]],
    [name |-> "ultimate_save_config",
     description |-> "Save current configuration to flash memory",
     inputSchema |-> [type |-> "object", properties |-> <<>>, required |-> <<>>]],
    [name |-> "ultimate_load_config",
     description |-> "Load configuration from flash memory",
     inputSchema |-> [type |-> "object", properties |-> <<>>, required |-> <<>>]],
    [name |-> "ultimate_reset_config",
     description |-> "Reset configuration to factory defaults",
     inputSchema |-> [type |-> "object", properties |-> <<>>, required |-> <<>>]],
    [name |-> "ultimate_read_memory",
     description |-> "Read memory from a specific address on the C64",
     inputSchema |-> [type |-> "object", properties |-> <<[name |-> "address", type |-> "string"], [name |-> "length", type |-> "integer"]>>, required |-> <<"address">>]],
    [name |-> "ultimate_write_memory",
     description |-> "Write data to a specific memory address on the C64 using hex string (PUT method)",
     inputSchema |-> [type |-> "object", properties |-> <<[name |-> "address", type |-> "string"], [name |-> "data", type |-> "string"]>>, required |-> <<"address", "data">>]],
    [name |-> "ultimate_write_memory_binary",
     description |-> "Write binary data from a file to a specific memory address on the C64 (POST method with binary body)",
     inputSchema |-> [type |-> "object", properties |-> <<[name |-> "address", type |-> "string"], [name |-> "file_path", type |-> "string"]>>, required |-> <<"address", "file_path">>]],
    [name |-> "ultimate_reset_machine",
     description |-> "Reset the C64 machine (soft reset)",
     inputSchema |-> [type |-> "object", properties |-> <<>>, required |-> <<>>]],
    [name |-> "ultimate_power_off",
     description |-> "Power off the Ultimate device (hardware power off)",
     inputSchema |-> [type |-> "object", properties |-> <<>>, required |-> <<>>]],
    [name |-> "ultimate_get_machine_info",
     description |-> "Get machine information and status",
     inputSchema |-> [type |-> "object", properties |-> <<>>, required |-> <<>>]],
    [name |-> "ultimate_get_machine_state",
     description |-> "Get current machine state",
     inputSchema |-> [type |-> "object", properties |-> <<>>, required |-> <<>>]],
    [name |-> "ultimate_soft_reset",
     description |-> "Perform a soft reset (load empty program)",
     inputSchema |-> [type |-> "object", properties |-> <<>>, required |-> <<>>]],
    [name |-> "ultimate_reboot_device",
     description |-> "Reboot the Ultimate device",
     inputSchema |-> [type |-> "object", properties |-> <<>>, required |-> <<>>]],
    [name |-> "ultimate_set_drive_mode",
     description |-> "Set drive mode (1541, 1571, 1581)",
     inputSchema |-> [type |-> "object", properties |-> <<[name |-> "drive", type |-> "string"], [name |-> "mode", type |-> "string"]>>, required |-> <<"drive", "mode">>]],
    [name |-> "ultimate_load_drive_rom",
     description |-> "Load a custom ROM into a drive",
     inputSchema |-> [type |-> "object", properties |-> <<[name |-> "drive", type |-> "string"], [name |-> "file", type |-> "string"]>>, required |-> <<"drive", "file">>]],
    [name |-> "ultimate_get_file_info",
     description |-> "Get information about a file",
     inputSchema |-> [type |-> "object", properties |-> <<[name |-> "path", type |-> "string"]>>, required |-> <<"path">>]],
    [name |-> "ultimate_create_dnp",
     description |-> "Create a DNP disk image",
     inputSchema |-> [type |-> "object", properties |-> <<[name |-> "path", type |-> "string"], [name |-> "tracks", type |-> "integer"], [name |-> "diskname", type |-> "string"]>>, required |-> <<"path", "tracks">>]],
    [name |-> "ultimate_start_stream",
     description |-> "Start a data stream (U64 only: video, audio, debug)",
     inputSchema |-> [type |-> "object", properties |-> <<[name |-> "stream", type |-> "string"], [name |-> "ip", type |-> "string"]>>, required |-> <<"stream", "ip">>]],
    [name |-> "ultimate_stop_stream",
     description |-> "Stop a data stream (U64 only)",
     inputSchema |-> [type |-> "object", properties |-> <<[name |-> "stream", type |-> "string"]>>, required |-> <<"stream">>]],
    [name |-> "ultimate_bulk_config_update",
     description |-> "Update multiple configuration settings at once",
     inputSchema |-> [type |-> "object", properties |-> <<[name |-> "config", type |-> "object"]>>, required |-> <<"config">>]]
  >>

\* The elif chain of call_tool, in order: the name each branch compares with,
\* the arguments[...] it subscripts (needs, in order), and for the branches that
\* end in make_request the verb, the endpoint f-string (path), the params dict
\* (query: <<param, argument key, how>>) and the key of the JSON body (data).
branches ==
  <<
    [name |-> "ultimate_set_connection", kind |-> "set_connection", needs |-> <<"hostname">>, verb |-> "",
     path |-> <<>>,
     query |-> <<>>, data |-> ""],
    [name |-> "ultimate_get_connection", kind |-> "get_connection", needs |-> <<>>, verb |-> "",
     path |-> <<>>,
     query |-> <<>>, data |-> ""],
    [name |-> "ultimate_version", kind |-> "request", needs |-> <<>>, verb |-> "GET",
     path |-> <<<<"lit", "version">>>>,
     query |-> <<>>, data |-> ""],
    [name |-> "ultimate_play_sid", kind |-> "play_sid", needs |-> <<"file">>, verb |-> "PUT",
     path |-> <<<<"lit", "runners">>, <<"lit", ":">>, <<"lit", "sidplay">>>>,
     query |-> <<<<"file", "file", "sub">>, <<"songnr", "song_number", "truthy">>>>, data |-> ""],
    [name |-> "ultimate_play_mod", kind |-> "request", needs |-> <<"file">>, verb |-> "PUT",
     path |-> <<<<"lit", "runners">>, <<"lit", ":">>, <<"lit", "modplay">>>>,
     query |-> <<<<"file", "file", "sub">>>>, data |-> ""],
    [name |-> "ultimate_load_program", kind |-> "request", needs |-> <<"file">>, verb |-> "PUT",
     path |-> <<<<"lit", "runners">>, <<"lit", ":">>, <<"lit", "load_prg">>>>,
     query |-> <<<<"file", "file", "sub">>>>, data |-> ""],
    [name |-> "ultimate_run_program", kind |-> "request", needs |-> <<"file">>, verb |-> "PUT",
     path |-> <<<<"lit", "runners">>, <<"lit", ":">>, <<"lit", "run_prg">>>>,
     query |-> <<<<"file", "file", "sub">>>>, data |-> ""],
    [name |-> "ultimate_run_prg_binary", kind |-> "run_prg_binary", needs |-> <<>>, verb |-> "POST",
     path |-> <<<<"lit", "runners">>, <<"lit", ":">>, <<"lit", "run_prg">>>>,
     query |-> <<>>, data |-> ""],
    [name |-> "ultimate_run_cartridge", kind |-> "request", needs |-> <<"file">>, verb |-> "PUT",
     path |-> <<<<"lit", "runners">>, <<"lit", ":">>, <<"lit", "run_crt">>>>,
     query |-> <<<<"file", "file", "sub">>>>, data |-> ""],
    [name |-> "ultimate_get_config_categories", kind |-> "request", needs |-> <<>>, verb |-> "GET",
     path |-> <<<<"lit", "configs">>>>,
     query |-> <<>>, data |-> ""],
    [name |-> "ultimate_get_config_category", kind |-> "request", needs |-> <<"category">>, verb |-> "GET",
     path |-> <<<<"lit", "configs">>, <<"lit", "/">>, <<"arg", "category">>>>,
     query |-> <<>>, data |-> ""],
    [name |-> "ultimate_get_config_item", kind |-> "request", needs |-> <<"category", "item">>, verb |-> "GET",
     path |-> <<<<"lit", "configs">>, <<"lit", "/">>, <<"arg", "category">>, <<"lit", "/">>, <<"arg", "item">>>>,
     query |-> <<>>, data |-> ""],
    [name |-> "ultimate_set_config_item", kind |-> "request", needs |-> <<"category", "item", "value">>, verb |-> "PUT",
     path |-> <<<<"lit", "configs">>, <<"lit", "/">>, <<"arg", "category">>, <<"lit", "/">>, <<"arg", "item">>>>,
     query |-> <<<<"value", "value", "sub">>>>, data |-> ""],
    [name |-> "ultimate_mount_disk", kind |-> "request", needs |-> <<"drive", "file">>, verb |-> "PUT",
     path |-> <<<<"lit", "drives">>, <<"lit", "/">>, <<"arg", "drive">>, <<"lit", ":">>, <<"lit", "mount">>>>,
     query |-> <<<<"image", "file", "sub">>>>, data |-> ""],
    [name |-> "ultimate_unmount_disk", kind |-> "request", needs |-> <<"drive">>, verb |-> "PUT",
     path |-> <<<<"lit", "drives">>, <<"lit", "/">>, <<"arg", "drive">>, <<"lit", ":">>, <<"lit", "remove">>>>,
     query |-> <<>>, data |-> ""],
    [name |-> "ultimate_turn_drive_on", kind |-> "request", needs |-> <<"drive">>, verb |-> "PUT",
     path |-> <<<<"lit", "drives">>, <<"lit", "/">>, <<"arg", "drive">>, <<"lit", ":">>, <<"lit", "on">>>>,
     query |-> <<>>, data |-> ""],
    [name |-> "ultimate_turn_drive_off", kind |-> "request", needs |-> <<"drive">>, verb |-> "PUT",
     path |-> <<<<"lit", "drives">>, <<"lit", "/">>, <<"arg", "drive">>, <<"lit", ":">>, <<"lit", "off">>>>,
     query |-> <<>>, data |-> ""],
    [name |-> "ultimate_create_d64", kind |-> "request", needs |-> <<"path">>, verb |-> "PUT",
     path |-> <<<<"lit", "files">>, <<"lit", "/">>, <<"arg", "path">>, <<"lit", ":">>, <<"lit", "create_d64">>>>,
     query |-> <<<<"tracks", "tracks", "in">>, <<"diskname", "diskname", "in">>>>, data |-> ""],
    [name |-> "ultimate_create_d71", kind |-> "request", needs |-> <<"path">>, verb |-> "PUT",
     path |-> <<<<"lit", "files">>, <<"lit", "/">>, <<"arg", "path">>, <<"lit", ":">>, <<"lit", "create_d71">>>>,
     query |-> <<<<"diskname", "diskname", "in">>>>, data |-> ""],
    [name |-> "ultimate_create_d81", kind |-> "request", needs |-> <<"path">>, verb |-> "PUT",
     path |-> <<<<"lit", "files">>, <<"lit", "/">>, <<"arg", "path">>, <<"lit", ":">>, <<"lit", "create_d81">>>>,
     query |-> <<<<"diskname", "diskname", "in">>>>, data |-> ""],
    [name |-> "ultimate_save_config", kind |-> "request", needs |-> <<>>, verb |-> "PUT",
     path |-> <<<<"lit", "configs">>, <<"lit", ":">>, <<"lit", "save_to_flash">>>>,
     query |-> <<>>, data |-> ""],
    [name |-> "ultimate_load_config", kind |-> "request", needs |-> <<>>, verb |-> "PUT",
     path |-> <<<<"lit", "configs">>, <<"lit", ":">>, <<"lit", "load_from_flash">>>>,
     query |-> <<>>, data |-> ""],
    [name |-> "ultimate_reset_config", kind |-> "request", needs |-> <<>>, verb |-> "PUT",
     path |-> <<<<"lit", "configs">>, <<"lit", ":">>, <<"lit", "reset_to_default">>>>,
     query |-> <<>>, data |-> ""],
    [name |-> "ultimate_read_memory", kind |-> "request", needs |-> <<"address">>, verb |-> "GET",
     path |-> <<<<"lit", "machine">>, <<"lit", ":">>, <<"lit", "readmem">>>>,
     query |-> <<<<"address", "address", "sub">>, <<"length", "length", "default256">>>>, data |-> ""],
    [name |-> "ultimate_write_memory", kind |-> "request", needs |-> <<"address", "data">>, verb |-> "PUT",
     path |-> <<<<"lit", "machine">>, <<"lit", ":">>, <<"lit", "writemem">>>>,
     query |-> <<<<"address", "address", "sub">>, <<"data", "data", "sub">>>>, data |-> ""],
    [name |-> "ultimate_write_memory_binary", kind |-> "write_memory_binary", needs |-> <<"address", "file_path">>, verb |-> "POST",
     path |-> <<<<"lit", "machine">>, <<"lit", ":">>, <<"lit", "writemem">>>>,
     query |-> <<<<"address", "address", "sub">>>>, data |-> ""],
    [name |-> "ultimate_reset_machine", kind |-> "request", needs |-> <<>>, verb |-> "PUT",
     path |-> <<<<"lit", "machine">>, <<"lit", ":">>, <<"lit", "reset">>>>,
     query |-> <<>>, data |-> ""],
    [name |-> "ultimate_power_off", kind |-> "request", needs |-> <<>>, verb |-> "PUT",
     path |-> <<<<"lit", "machine">>, <<"lit", ":">>, <<"lit", "poweroff">>>>,
     query |-> <<>>, data |-> ""],
    [name |-> "ultimate_get_machine_info", kind |-> "request", needs |-> <<>>, verb |-> "GET",
     path |-> <<<<"lit", "machine">>, <<"lit", ":">>, <<"lit", "info">>>>,
     query |-> <<>>, data |-> ""],
    [name |-> "ultimate_get_machine_state", kind |-> "request", needs |-> <<>>, verb |-> "GET",
     path |-> <<<<"lit", "machine">>, <<"lit", ":">>, <<"lit", "state">>>>,
     query |-> <<>>, data |-> ""],
    [name |-> "ultimate_soft_reset", kind |-> "request", needs |-> <<>>, verb |-> "PUT",
     path |-> <<<<"lit", "runners">>, <<"lit", ":">>, <<"lit", "load_prg">>>>,
     query |-> <<<<"file", "", "empty">>>>, data |-> ""],
    [name |-> "ultimate_reboot_device", kind |-> "request", needs |-> <<>>, verb |-> "PUT",
     path |-> <<<<"lit", "machine">>, <<"lit", ":">>, <<"lit", "reboot">>>>,
     query |-> <<>>, data |-> ""],
    [name |-> "ultimate_set_drive_mode", kind |-> "request", needs |-> <<"drive", "mode">>, verb |-> "PUT",
     path |-> <<<<"lit", "drives">>, <<"lit", "/">>, <<"arg", "drive">>, <<"lit", ":">>, <<"lit", "set_mode">>>>,
     query |-> <<<<"mode", "mode", "sub">>>>, data |-> ""],
    [name |-> "ultimate_load_drive_rom", kind |-> "request", needs |-> <<"drive", "file">>, verb |-> "PUT",
     path |-> <<<<"lit", "drives">>, <<"lit", "/">>, <<"arg", "drive">>, <<"lit", ":">>, <<"lit", "load_rom">>>>,
     query |-> <<<<"file", "file", "sub">>>>, data |-> ""],
    [name |-> "ultimate_get_file_info", kind |-> "request", needs |-> <<"path">>, verb |-> "GET",
     path |-> <<<<"lit", "files">>, <<"lit", "/">>, <<"arg", "path">>, <<"lit", ":">>, <<"lit", "info">>>>,
     query |-> <<>>, data |-> ""],
    [name |-> "ultimate_create_dnp", kind |-> "request", needs |-> <<"path", "tracks">>, verb |-> "PUT",
     path |-> <<<<"lit", "files">>, <<"lit", "/">>, <<"arg", "path">>, <<"lit", ":">>, <<"lit", "create_dnp">>>>,
     query |-> <<<<"tracks", "tracks", "sub">>, <<"diskname", "diskname", "in">>>>, data |-> ""],
    [name |-> "ultimate_start_stream", kind |-> "request", needs |-> <<"stream", "ip">>, verb |-> "PUT",
     path |-> <<<<"lit", "streams">>, <<"lit", "/">>, <<"arg", "stream">>, <<"lit", ":">>, <<"lit", "start">>>>,
     query |-> <<<<"ip", "ip", "sub">>>>, data |-> ""],
    [name |-> "ultimate_stop_stream", kind |-> "request", needs |-> <<"stream">>, verb |-> "PUT",
     path |-> <<<<"lit", "streams">>, <<"lit", "/">>, <<"arg", "stream">>, <<"lit", ":">>, <<"lit", "stop">>>>,
     query |-> <<>>, data |-> ""],
    [name |-> "ultimate_bulk_config_update", kind |-> "request", needs |-> <<"config">>, verb |-> "POST",
     path |-> <<<<"lit", "configs">>>>,
     query |-> <<>>, data |-> "config"]
  >>

\* The names of the catalog, in order.
ToolNames == { tools[i].name : i \in 1..Len(tools) }

\* ------------------------------------------------------------ the dispatcher

\* A chain without its final else: a name no branch matches runs the last one
\* tried.
BranchOf_NoElse(tool_name) ==
  LET hits == { i \in 1..Len(branches) : ~IsNone(tool_name) /\ branches[i].name = Val(tool_name) }
  IN  IF hits = {} THEN Some(branches[3])
      ELSE Some(branches[CHOOSE i \in hits : \A j \in hits : i <= j])

\* The branch of call_tool's if/elif chain that tool_name selects (the first
\* whose name compares equal), None for the final else.
BranchOf(tool_name) ==
  IF IsNone(tool_name) THEN None
  ELSE LET hits == { i \in 1..Len(branches) : branches[i].name = Val(tool_name) }
       IN  IF hits = {} THEN None
           ELSE Some(branches[CHOOSE i \in hits : \A j \in hits : i <= j])

RECURSIVE MissingKey(_, _)
\* The first arguments[k] of a branch that raises KeyError, None if none does.
MissingKey(arguments, needs) ==
  IF needs = << >> THEN None
  ELSE IF ~Has(arguments, Head(needs)) THEN Some(Head(needs))
  ELSE MissingKey(arguments, Tail(needs))

RECURSIVE Endpoint(_, _)
\* The endpoint f-string of a branch.
Endpoint(path, arguments) ==
  IF path = << >> THEN << >>
  ELSE (IF Head(path)[1] = "lit" THEN << Head(path)[2] >>
        ELSE << arguments[Head(path)[2]] >>) \o Endpoint(Tail(path), arguments)

RECURSIVE Params(_, _)
\* The params dict of a branch, as a sequence of <<name, value>>.
Params(query, arguments) ==
  IF query = << >> THEN << >>
  ELSE
    LET q == Head(query)
        one == CASE q[3] = "sub" -> << << q[1], arguments[q[2]] >> >>
                 [] q[3] = "in" ->
                      IF Has(arguments, q[2]) THEN << << q[1], arguments[q[2]] >> >> ELSE << >>
                 [] q[3] = "truthy" ->
                      IF Has(arguments, q[2]) /\ Truthy(arguments[q[2]])
                      THEN << << q[1], arguments[q[2]] >> >> ELSE << >>
                 [] q[3] = "default256" ->
                      << << q[1], IF Has(arguments, q[2]) THEN arguments[q[2]] ELSE "256" >> >>
                 [] q[3] = "empty" -> << << q[1], "''" >> >>
    IN  one \o Params(Tail(query), arguments)

\* json.dumps(result, indent=2)
JsonDumps(res) ==
  << "{" >>
  \o (IF res.errors = << >> THEN << >>
      ELSE << "errors", "[" >> \o Join(res.errors, ",") \o << "]" >>)
  \o res.body \o << "}" >>

\* CallToolResult(content=[TextContent(type="text", text=text)]); isError keeps
\* the default of the type.
CallToolResult(text) ==
  [content |-> << [type |-> "text", text |-> text] >>, isError |-> FALSE]

\* What one call_tool does: the CallToolResult it returns, the HTTP requests it
\* issued, the connection it leaves, whether it raised, and (not visible to the
\* caller) whether its result dict carried a non-empty "errors" list.
Outcome(text, requests, base_url, api_base, errors) ==
  [result |-> CallToolResult(text), requests |-> requests,
   base_url |-> base_url, api_base |-> api_base, raised |-> FALSE, errors |-> errors]

\* The rendering at the end of call_tool.
Rendered(res, requests, base_url, api_base) ==
  Outcome(IF res.errors # << >>
          THEN << "Errors: " >> \o Join(res.errors, ", ")
          ELSE JsonDumps([res EXCEPT !.errors = << >>]),
          requests, base_url, api_base, res.errors # << >>)

\* An early return that drops the connection.
Returned_Unconfigured(res, requests, base_url, api_base) ==
  Outcome(JsonDumps(res), requests, None, None, res.errors # << >>)

\* An early "return CallToolResult(... json.dumps(result, indent=2))".
Returned(res, requests, base_url, api_base) ==
  Outcome(JsonDumps(res), requests, base_url, api_base, res.errors # << >>)

\* A handler that forgets the connection when a call fails.
Caught_Reset(exc, base_url, api_base) ==
  Outcome(<< "Error: " >> \o exc, << >>, None, None, FALSE)

\* A handler that reports a failure without its cause.
Caught_Unnamed(exc, base_url, api_base) ==
  Outcome(<< "Error: ", "tool call failed" >>, << >>, base_url, api_base, FALSE)

\* The outer "except Exception as e".
Caught(exc, base_url, api_base) ==
  Outcome(<< "Error: " >> \o exc, << >>, base_url, api_base, FALSE)

\* A post that goes out whatever the connection is.
DirectPost_Unchecked(api_base, endpoint, params, body, o, okStatuses, adopt, okBody, failPrefix, excPrefix) ==
  [result |-> IF o.status \in okStatuses THEN Ok(okBody)
              ELSE Errs(<< failPrefix, StatusText(o), ": ", "body text" >>),
   requests |-> << Request("POST", Fmt(api_base) \o << "/" >> \o endpoint, params, body) >>]

\* session.post(f"{self.api_base}/...") of the branches that build their own
\* request: the result dict by status, and the request if one went out.  With
\* api_base None the URL is "None/..." and aiohttp raises before connecting.
\* adopt: the branch takes the device's JSON body as its result, if it parses.
DirectPost(api_base, endpoint, params, body, o, okStatuses, adopt, okBody, failPrefix, excPrefix) ==
  IF IsNone(api_base) \/ o.status = 0
  THEN [result |-> Errs(<< excPrefix >> \o Fmt(api_base) \o << "/" >> \o endpoint),
        requests |-> IF IsNone(api_base) THEN << >>
                     ELSE << Request("POST", Val(api_base) \o << "/" >> \o endpoint, params, body) >>]
  ELSE [result |-> IF o.status \in okStatuses
                   THEN (IF adopt /\ o.json /\ o.valid /\ o.status = 200 /\ o.errs
                         THEN [errors |-> DeviceJson(o).errors, body |-> okBody]
                         ELSE Ok(okBody))
                   ELSE Errs(<< failPrefix, StatusText(o), ": ", "body text" >>),
        requests |-> << Request("POST", Val(api_base) \o << "/" >> \o endpoint, params, body) >>]

\* base64.b64decode(s.strip(), validate=True): the length decoded, -1 if it raises.
B64Len(v) == CASE v = "b64:1" -> 1 [] v = "b64:2" -> 2 [] OTHER -> -1

\* The ultimate_play_sid branch.
PlaySid(b, api_base, arguments, env) ==
  IF env.file >= 0
  THEN DirectPost(api_base, Endpoint(b.path, arguments),
                  IF Has(arguments, "song_number") /\ Truthy(arguments["song_number"])
                  THEN << << "songnr", arguments["song_number"] >> >> ELSE << >>,
                  << "file", arguments["file"] >>, env.dev, {200, 204}, TRUE,
                  << "ok", "true" >>, "HTTP ", "Failed to play SID: ")
  ELSE make_request(api_base, "PUT", Endpoint(b.path, arguments),
                    Params(b.query, arguments), << >>, env.dev)

\* The ultimate_write_memory_binary branch.
WriteMemoryBinary(b, api_base, arguments, env) ==
  IF env.file < 0
  THEN [result |-> Errs(<< "Failed to write binary data from ", arguments["file_path"] >>),
        requests |-> << >>]
  ELSE DirectPost(api_base, Endpoint(b.path, arguments), Params(b.query, arguments),
                  << "file", arguments["file_path"] >>, env.dev, {200, 204}, TRUE,
                  << "ok", "true", "message", "Successfully wrote" >>, "HTTP ",
                  "Failed to write binary data from ")

\* session.get(download_url) of ultimate_run_prg_binary.
DownloadRequest(arguments) == << Request("GET", << arguments["url"] >>, << >>, << >>) >>

\* A branch that goes on to the next source when one fails.
PrgPayload_Fallback(arguments, env) ==
  LET got(n, src, reqs) == [early |-> None, len |-> n, source |-> src, requests |-> reqs]
      bad(msg, reqs) == [early |-> Some(Errs(msg)), len |-> 0, source |-> "", requests |-> reqs]
      given(k) == Has(arguments, k) /\ Truthy(arguments[k])
  IN  IF given("prg_data_base64") /\ B64Len(arguments["prg_data_base64"]) >= 0
      THEN got(B64Len(arguments["prg_data_base64"]), "base64", << >>)
      ELSE IF given("url") /\ env.dl.status = 200
      THEN got(env.dl.len, "url", DownloadRequest(arguments))
      ELSE IF given("file_path") /\ env.file >= 0
      THEN got(env.file, "file", << >>)
      ELSE bad(<< "One of 'file_path', 'prg_data_base64', or 'url' must be provided" >>, << >>)

\* The payload ultimate_run_prg_binary obtains: [early |-> the error dict of an
\* early return or None, len, source, requests |-> the download request].
PrgPayload(arguments, env) ==
  LET got(n, src, reqs) == [early |-> None, len |-> n, source |-> src, requests |-> reqs]
      bad(msg, reqs) == [early |-> Some(Errs(msg)), len |-> 0, source |-> "", requests |-> reqs]
  IN  IF Has(arguments, "prg_data_base64") /\ Truthy(arguments["prg_data_base64"])
      THEN LET v == arguments["prg_data_base64"]
           IN  IF v = "b64:ws" THEN bad(<< "Base64 data is empty" >>, << >>)
               ELSE IF B64Len(v) < 0 THEN bad(<< "Invalid base64 data: " >>, << >>)
               ELSE got(B64Len(v), "base64", << >>)
      ELSE IF Has(arguments, "url") /\ Truthy(arguments["url"])
      THEN LET dl == DownloadRequest(arguments)
           IN  IF env.dl.status = 200 THEN got(env.dl.len, "url", dl)
               ELSE IF env.dl.status = 0
               THEN bad(<< "Failed to download PRG file from URL: ", "client error" >>, dl)
               ELSE bad(<< "Failed to download PRG file from URL: HTTP ", "404" >>, dl)
      ELSE IF Has(arguments, "file_path") /\ Truthy(arguments["file_path"])
      THEN IF env.file < 0
           THEN bad(<< "File not found: ", arguments["file_path"] >>, << >>)
           ELSE got(env.file, "file", << >>)
      ELSE bad(<< "One of 'file_path', 'prg_data_base64', or 'url' must be provided" >>, << >>)

\* The call is one of ultimate_run_prg_binary that takes its payload from a URL.
FetchesUrl(tool_name, arguments) ==
  /\ tool_name = Some("ultimate_run_prg_binary")
  /\ ~(Has(arguments, "prg_data_base64") /\ Truthy(arguments["prg_data_base64"]))
  /\ Has(arguments, "url") /\ Truthy(arguments["url"])

\* The ultimate_run_prg_binary branch: [early, result, requests].
RunPrgBinary(b, api_base, arguments, env) ==
  LET p == PrgPayload(arguments, env)
  IN  IF ~IsNone(p.early) THEN [early |-> TRUE, result |-> Val(p.early), requests |-> p.requests]
      ELSE IF p.len = 0
      THEN [early |-> TRUE, result |-> Errs(<< "No PRG data provided or data is empty" >>),
            requests |-> p.requests]
      ELSE IF p.len < 2
      THEN [early |-> TRUE,
            result |-> Errs(<< "PRG file is too small (must be at least 2 bytes for load address)" >>),
            requests |-> p.requests]
      ELSE LET d == DirectPost(api_base, Endpoint(b.path, arguments), << >>,
                               << "prg", p.source >>, env.dev, {200}, FALSE,
                               << "success", "true", "message", "Running PRG from ", p.source >>,
                               "Failed to run PRG: HTTP ", "Failed to process PRG file: ")
           IN  [early |-> FALSE, result |-> d.result, requests |-> p.requests \o d.requests]

\* UltimateHandler.call_tool.
call_tool(base_url, api_base, tool_name, arguments, env) ==
  LET br == BranchOf(tool_name)
  IN  IF IsNone(br)
      THEN Rendered(Errs(<< "Unknown tool: ", FmtToken(tool_name) >>), << >>, base_url, api_base)
      ELSE
        LET b == Val(br)
            miss == MissingKey(arguments, b.needs)
        IN  IF ~IsNone(miss)
            THEN Caught(<< "'", Val(miss), "'" >>, base_url, api_base)
            ELSE CASE b.kind = "set_connection" ->
                   LET hostname == arguments["hostname"]
                       url == IF Has(arguments, "port") /\ Truthy(arguments["port"])
                              THEN << "http", ":", "/", "/", hostname, ":", arguments["port"] >>
                              ELSE << "http", ":", "/", "/", hostname >>
                       c == set_base_url(url)
                   IN  Returned(Ok(<< "ok", "true", "message", "Connection set to " >>
                                   \o Val(c.base_url)),
                                << >>, c.base_url, c.api_base)
                 [] b.kind = "get_connection" ->
                   Returned(Ok(<< "base_url" >>
                               \o (IF IsNone(base_url) THEN << "null" >> ELSE Val(base_url))),
                            << >>, base_url, api_base)
                 [] b.kind = "request" ->
                   LET r == make_request(api_base, b.verb, Endpoint(b.path, arguments),
                                         Params(b.query, arguments),
                                         IF b.data = "" THEN << >>
                                         ELSE << "json", arguments[b.data] >>,
                                         env.dev)
                   IN  Rendered(r.result, r.requests, base_url, api_base)
                 [] b.kind = "play_sid" ->
                   LET r == PlaySid(b, api_base, arguments, env)
                   IN  Rendered(r.result, r.requests, base_url, api_base)
                 [] b.kind = "write_memory_binary" ->
                   LET r == WriteMemoryBinary(b, api_base, arguments, env)
                   IN  Rendered(r.result, r.requests, base_url, api_base)
                 [] b.kind = "run_prg_binary" ->
                   LET r == RunPrgBinary(b, api_base, arguments, env)
                   IN  IF r.early THEN Returned(r.result, r.requests, base_url, api_base)
                       ELSE Rendered(r.result, r.requests, base_url, api_base)


\* --------------------------------------------------------- JSON-RPC messages

\* A JSON-RPC response as process_messages builds it.  kind names which of
\* "result" (initialize, tools, content) or "error" it carries.
Response(id, kind, tls, content, code, message) ==
  [jsonrpc |-> "2.0", id |-> id, kind |-> kind, tools |-> tls, content |-> content,
   code |-> code, message |-> message]

NoResponse == Response(None, "none", << >>, << >>, 0, << >>)

\* The initialize result.
InitializeResponse(msg_id) ==
  Response(msg_id, "initialize", << >>, << >>, 0,
           << "2024-11-05", "ultimate64-mcp-sse", "1.0.0" >>)

\* A conversion that loses the schemas.
ToolsDict_NoSchema(ts) ==
  [i \in 1..Len(ts) |->
     [name |-> ts[i].name, description |-> ts[i].description,
      inputSchema |-> [type |-> "object", properties |-> << >>, required |-> << >>]]]

RECURSIVE ToolsDict(_)
\* tools_dict: one dict per Tool, in order.
ToolsDict(ts) ==
  IF ts = << >> THEN << >>
  ELSE << [name |-> Head(ts).name, description |-> Head(ts).description,
           inputSchema |-> Head(ts).inputSchema] >> \o ToolsDict(Tail(ts))

\* A catalog that lists its first tool once more.
get_tools_Twice == tools \o << tools[1] >>

\* UltimateHandler.get_tools
get_tools == tools

ToolsListResponse(msg_id) ==
  Response(msg_id, "tools", ToolsDict(get_tools), << >>, 0, << >>)

RECURSIVE ContentOf(_)
\* The content list of a tools/call response.
ContentOf(items) ==
  IF items = << >> THEN << >>
  ELSE << [type |-> "text", text |-> Head(items).text] >> \o ContentOf(Tail(items))

\* The response to a tools/call: the result's content, or -32603 if call_tool raised.
ToolsCallResponse(msg_id, out) ==
  IF out.raised
  THEN Response(msg_id, "error", << >>, << >>, -32603, << "Internal error: " >>)
  ELSE Response(msg_id, "content", << >>, ContentOf(out.result.content), 0, << >>)

MethodNotFound(msg_id, method) ==
  Response(msg_id, "error", << >>, << >>, -32601, << "Method not found: ", FmtToken(method) >>)

\* json.dumps(x) + '\n', and the message it parses back to.
Line(x) == [json |-> x, nl |-> TRUE]
Parse(line) == line.json

\* A JSON-RPC message as the peer POSTs it.  shape: "rpc" (a JSON object with a
\* jsonrpc field), "no_jsonrpc", "not_object" or "invalid_json".  params: what
\* the "params" member is, an object (or absent, which get("params", {}) makes
\* one) unless said otherwise; name and arguments are the members of that object.
Message(shape, method, id, name, arguments) ==
  [shape |-> shape, method |-> method, id |-> id, params |-> "object",
   name |-> name, arguments |-> arguments]

\* The message with a "params" member that is null or an array.
WithParams(m, params) == [m EXCEPT !.params = params]

\* params.get(...) raises AttributeError: params is not an object.
ParamsGetRaises(message_data) == message_data.params \in { "null", "array" }

\* ----------------------------------------------- WebServer.handle_upload_prg

\* A POST /upload-prg: its Content-Type, what it carries under it (field) and
\* the bytes of the payload.
UploadRequest(content_type, field, data) ==
  [content_type |-> content_type, field |-> field, data |-> data]

\* A JSONResponse of handle_upload_prg: its status code, its "success" member
\* ("absent" if it has none), its "error" member, and the requests made.
UploadAnswer(status, success, error, requests) ==
  [status |-> status, success |-> success, error |-> error, requests |-> requests]

\* The payloads a peer uploads: none, one and two bytes.
Payloads == { << >>, << "01" >>, << "01", "08" >> }

\* base64 text of a payload, and base64.b64decode of it.
B64Encode(data) == << "b64" >> \o data
B64Decode(text) == Tail(text)

\* The uploads a peer makes: a multipart form with a file under "file", with a
\* text value under "file" or without the field; a raw body of either binary
\* type; a JSON object with the payload in base64, with base64 of a wrong
\* padding, with a number for it or without the member, and a body that is not
\* JSON; and a type the endpoint does not know.
UploadRequests ==
  { UploadRequest("multipart/form-data", f, d) : f \in { "file" }, d \in Payloads }
  \cup { UploadRequest("multipart/form-data", f, << >>) : f \in { "text", "absent" } }
  \cup { UploadRequest(t, "body", d) :
           t \in { "application/octet-stream", "application/x-binary", "text/plain" },
           d \in Payloads }
  \cup { UploadRequest("application/json", "base64", B64Encode(d)) : d \in Payloads }
  \cup { UploadRequest("application/json", f, << >>) :
           f \in { "bad_padding", "not_string", "absent", "invalid_json" } }

\* A check that lets every payload pass.
EmptyPayload_Never(prg_data) == FALSE

\* not prg_data or len(prg_data) == 0
EmptyPayload(prg_data) == prg_data = << >>

\* handle_upload_prg from the connection check on: the payload is posted to
\* runners:run_prg and the answer made of the device's status.
Forward(api_base, prg_data, o) ==
  IF IsNone(api_base) \/ Val(api_base) = << >>
  THEN UploadAnswer(400, "false", NoHostMessage, << >>)
  ELSE LET requests == << Request("POST", Val(api_base) \o << "/", "runners", ":", "run_prg" >>,
                                  << >>, prg_data) >>
       IN  IF o.status = 0
           THEN UploadAnswer(500, "absent", << "transport failure" >>, requests)
           ELSE IF o.status = 200
           THEN UploadAnswer(200, "true", << >>, requests)
           ELSE UploadAnswer(o.status, "false",
                             << "Failed to run PRG: HTTP ", StatusText(o) >>, requests)

\* WebServer.handle_upload_prg: the answer to a request, with the device
\* answering o if it is asked.
handle_upload_prg(api_base, request, o) ==
  LET rest(prg_data) ==
        IF EmptyPayload(prg_data)
        THEN UploadAnswer(400, "absent", << "No PRG data provided" >>, << >>)
        ELSE Forward(api_base, prg_data, o)
      ct == request.content_type
  IN  IF ct = "multipart/form-data"
      THEN CASE request.field = "absent" ->
                  UploadAnswer(400, "absent", << "Missing 'file' field" >>, << >>)
             [] request.field = "text" ->
                  UploadAnswer(500, "absent", << "'str' object has no attribute 'read'" >>, << >>)
             [] OTHER -> rest(request.data)
      ELSE IF ct \in { "application/octet-stream", "application/x-binary" }
      THEN rest(request.data)
      ELSE IF ct = "application/json"
      THEN CASE request.field = "invalid_json" ->
                  UploadAnswer(500, "absent", << "decode failure" >>, << >>)
             [] request.field = "absent" ->
                  UploadAnswer(400, "absent", << "Missing 'prg_data_base64' field" >>, << >>)
             [] request.field = "bad_padding" ->
                  UploadAnswer(400, "absent", << "Invalid base64 data: " >>, << >>)
             [] request.field = "not_string" ->
                  UploadAnswer(500, "absent", << "argument should be a bytes-like object" >>, << >>)
             [] OTHER -> rest(B64Decode(request.data))
      ELSE UploadAnswer(400, "absent", << "Unsupported content type." >>, << >>)

\* ------------------------------------------------------------------- inputs

\* The push-stream connections opened over a run.
Conns == { 1, 2 }

\* uuid.uuid4() of the connection's request.
Uuid4(c) == << "uuid4", ToString(c) >>

\* The session ids a caller supplies.
SuppliedIds == { << "s1" >> }

SessionIds == SuppliedIds \cup { Uuid4(c) : c \in Conns }

\* The device outcomes, downloads and local files a call may meet.
Downloads == { [status |-> 200, len |-> 2], [status |-> 200, len |-> 1],
               [status |-> 404, len |-> 0], [status |-> 0, len |-> 0] }
Files == { -1, 0, 1, 2 }
NoDownload == [status |-> 0, len |-> 0]

\* The environments that matter to a call.
EnvsFor(tool_name, arguments) ==
  [dev : DeviceOutcomes,
   dl : IF tool_name = Some("ultimate_run_prg_binary") /\ Has(arguments, "url")
        THEN Downloads ELSE { NoDownload },
   file : IF tool_name \in { Some("ultimate_play_sid"), Some("ultimate_write_memory_binary") }
             \/ (tool_name = Some("ultimate_run_prg_binary") /\ Has(arguments, "file_path"))
          THEN Files ELSE { -1 }]

\* The values an argument may take.
ArgValues(k) ==
  CASE k = "hostname" -> { "192.168.1.64", "h2" }
    [] k = "port" -> { "0", "6464" }
    [] k = "song_number" -> { "0", "2" }
    [] k = "prg_data_base64" -> { "''", "b64:ws", "b64:bad", "b64:1", "b64:2" }
    [] k = "url" -> { "''", "dl.example/a.prg" }
    [] k = "file_path" -> { "''", "a.prg" }
    [] k = "address" -> { "D020" }
    [] k = "length" -> { "1" }
    [] OTHER -> { "v" }

\* The argument bags over the keys ks.
Bags(ks) == UNION { { f \in [d -> UNION { ArgValues(k) : k \in d }] :
                        \A k \in d : f[k] \in ArgValues(k) } : d \in SUBSET ks }

ToolDef(name) == CHOOSE t \in Range(tools) : t.name = name

\* The argument bags a caller passes to a tool: over its declared properties.
BagsFor(tool_name) ==
  IF IsNone(tool_name) \/ Val(tool_name) \notin ToolNames THEN { << >> }
  ELSE Bags({ p.name : p \in Range(ToolDef(Val(tool_name)).inputSchema.properties) })

\* Tool names a caller may send: the catalog, a name outside it, and null.
CallerToolNames == { Some(n) : n \in ToolNames } \cup { Some("no_such_tool"), None }

\* Bodies that handle_messages does not enqueue.
BadBodies ==
  { Message(s, None, None, None, << >>) : s \in { "no_jsonrpc", "not_object", "invalid_json" } }

\* The host a peer names in its n-th request: the peers name different hosts.
HostOf(n) == IF n % 2 = 1 THEN "192.168.1.64" ELSE "h2"

\* The bodies POSTed to /messages when several sessions run side by side; the
\* peer numbers its requests (n).
SessionMessages(n) ==
  { Message("rpc", Some("initialize"), Some(n), None, << >>),
    Message("rpc", Some("tools/list"), Some(n), None, << >>),
    Message("rpc", Some("foo/bar"), None, None, << >>),
    Message("rpc", Some("tools/call"), Some(n), Some("ultimate_version"), << >>),
    Message("rpc", Some("tools/call"), Some(n), Some("ultimate_set_connection"),
            [hostname |-> HostOf(n)]) }
  \cup BadBodies

\* The bodies POSTed to /messages of a single session: requests, notifications
\* and unknown methods with and without an id, a method that is the number 123,
\* and tools/call without a name and without a required argument.
StreamMessages(n) ==
  SessionMessages(n)
  \cup { Message("rpc", Some(m), i, None, << >>) :
           m \in { "notifications/initialized", "foo/bar" }, i \in { None, Some(n) } }
  \cup { Message("rpc", Some("123"), Some(n), None, << >>),
         Message("rpc", Some("tools/call"), Some(n), None, << >>),
         Message("rpc", Some("tools/call"), Some(n), Some("ultimate_set_connection"), << >>) }

\* -------------------------------------------------------------------- state

VARIABLES
  base_url,      \* UltimateHandler.base_url
  api_base,      \* UltimateHandler.api_base
  call,          \* the direct caller of call_tool: the call it made and what came back
  seen,          \* what the direct caller can tell of the results it has taken
  st,            \* each push-stream connection: idle, endpoint, active, closed
  sid,           \* each connection's session_id
  sessions,      \* WebServer.sessions: session id -> the connection whose streams it holds
  read_stream,   \* each connection's read_stream (inbound lines)
  write_stream,  \* each connection's write_stream (outbound lines)
  events,        \* the events each connection's generator has yielded
  pm,            \* each connection's process_messages task: where it is, and the
                 \* requests in flight and the response of the call it awaits
  accepted,      \* the messages enqueued on each connection's read_stream, ever
  produced,      \* the responses put on each connection's write_stream, ever
  post,          \* the POST /messages suspended in request.json(), if any
  lastPost,      \* the last answer of handle_messages
  nposts,        \* POSTs made
  upload         \* the last POST /upload-prg and the answer of handle_upload_prg

vars == << base_url, api_base, call, seen, st, sid, sessions, read_stream, write_stream,
           events, pm, accepted, produced, post, lastPost, nposts, upload >>

streamVars == << st, sid, sessions, read_stream, write_stream, events, pm,
                 accepted, produced, post, lastPost, nposts >>

sessionVars == << streamVars, upload >>

NoCall ==
  [state |-> "idle", tool_name |-> None, arguments |-> << >>,
   env |-> [dev |-> NoOutcome, dl |-> NoDownload, file |-> -1],
   base_before |-> None, api_before |-> None,
   out |-> Outcome(<< >>, << >>, None, None, FALSE), response |-> NoResponse]

NoPost == [status |-> 0, closed_at_arrival |-> FALSE, enqueued |-> FALSE]

NoUpload ==
  [request |-> UploadRequest("", "", << >>), dev |-> NoOutcome, api_before |-> None,
   answer |-> UploadAnswer(0, "absent", << >>, << >>)]

\* UltimateHandler.__init__ with no C64_HOST and no url argument, and
\* WebServer.__init__.
Init ==
  /\ base_url = None
  /\ api_base = None
  /\ call = NoCall
  /\ seen = {}
  /\ st = [c \in Conns |-> "idle"]
  /\ sid = [c \in Conns |-> << >>]
  /\ sessions = << >>
  /\ read_stream = [c \in Conns |-> << >>]
  /\ write_stream = [c \in Conns |-> << >>]
  /\ events = [c \in Conns |-> << >>]
  /\ pm = [c \in Conns |-> [pc |-> "none", response |-> NoResponse, requests |-> << >>,
                             download |-> None]]
  /\ accepted = [c \in Conns |-> << >>]
  /\ produced = [c \in Conns |-> << >>]
  /\ post = None
  /\ lastPost = NoPost
  /\ nposts = 0
  /\ upload = NoUpload


\* --------------------------------------------------------------- dict helpers

\* d[k] = v
Put(d, k, v) == [x \in (DOMAIN d) \cup {k} |-> IF x = k THEN v ELSE d[x]]
\* del d[k]
Del(d, k) == [x \in (DOMAIN d) \ {k} |-> d[x]]

\* anyio.create_memory_object_stream[str](100)
StreamBuffer == 100

\* ------------------------------------------------------ WebServer.handle_sse

\* An event of the stream.
Event(event, endpoint, data) == [event |-> event, endpoint |-> endpoint, data |-> data]

\* An address that does not say which session it is for.
EndpointData_NoId(session_id) == << "/messages?session_id=" >>

\* f"/messages?session_id={session_id}"
EndpointData(session_id) == << "/messages?session_id=" >> \o session_id

\* handle_sse and the start of its response: the session id is the query
\* parameter or a fresh uuid4, the registry entry for it is assigned this
\* connection's streams, and sse_generator yields the endpoint event, where it
\* is suspended until the response has written the event.  Connections are
\* numbered in the order they are opened.
handle_sse(c, q) ==
  /\ st[c] = "idle"
  /\ \A d \in Conns : d < c => st[d] # "idle"
  /\ LET session_id == IF IsNone(q) THEN Uuid4(c) ELSE Val(q)
     IN  /\ sid' = [sid EXCEPT ![c] = session_id]
         /\ sessions' = Put(sessions, session_id, c)
         /\ events' = [events EXCEPT
                         ![c] = Append(@, Event("endpoint", EndpointData(session_id),
                                                NoResponse))]
  /\ st' = [st EXCEPT ![c] = "endpoint"]
  /\ UNCHANGED << base_url, api_base, call, seen, upload, read_stream, write_stream, pm,
                  accepted, produced, post, lastPost, nposts >>

\* sse_generator resumed: the task group is entered and process_messages
\* started; it waits on read_stream.
StartTaskGroup(c) ==
  /\ st[c] = "endpoint"
  /\ st' = [st EXCEPT ![c] = "active"]
  /\ pm' = [pm EXCEPT ![c] = [pc |-> "recv", response |-> NoResponse, requests |-> << >>,
                                  download |-> None]]
  /\ UNCHANGED << base_url, api_base, call, seen, upload, sid, sessions, read_stream, write_stream, events,
                  accepted, produced, post, lastPost, nposts >>

\* message.rstrip('\n')
RStripNl(line) == line.json

\* A generator that takes the newest line first.
YieldMessage_Lifo(c) ==
  /\ st[c] = "active"
  /\ write_stream[c] # << >>
  /\ events' = [events EXCEPT
                  ![c] = Append(@, Event("message", << >>,
                                         RStripNl(write_stream[c][Len(write_stream[c])])))]
  /\ write_stream' = [write_stream EXCEPT ![c] = SubSeq(@, 1, Len(@) - 1)]
  /\ UNCHANGED << base_url, api_base, call, seen, upload, st, sid, sessions, read_stream, pm,
                  accepted, produced, post, lastPost, nposts >>

\* sse_generator's loop: the next line of write_stream becomes a message event.
YieldMessage(c) ==
  /\ st[c] = "active"
  /\ write_stream[c] # << >>
  /\ events' = [events EXCEPT
                  ![c] = Append(@, Event("message", << >>, RStripNl(Head(write_stream[c]))))]
  /\ write_stream' = [write_stream EXCEPT ![c] = Tail(@)]
  /\ UNCHANGED << base_url, api_base, call, seen, upload, st, sid, sessions, read_stream, pm,
                  accepted, produced, post, lastPost, nposts >>

\* ------------------------------------------------------------ process_messages

\* await write_stream_send.send(json.dumps(response) + '\n')
Send(c, response) ==
  /\ Len(write_stream[c]) < StreamBuffer
  /\ write_stream' = [write_stream EXCEPT ![c] = Append(@, Line(response))]
  /\ produced' = [produced EXCEPT ![c] = Append(@, response)]

\* A dispatcher that knows no notification class.
StartsWithNotifications_Never(method) == FALSE

\* method.startswith("notifications/"), over the methods the peers send.
StartsWithNotifications(method) == method \in { "notifications/initialized" }

\* The JSON values of a "method" member that are not strings: on a truthy one,
\* method.startswith raises AttributeError.
NotStr == { "0", "null", "false", "123" }
StartsWithRaises(method) == ~IsNone(method) /\ Truthy(Val(method)) /\ Val(method) \in NotStr

\* A dispatcher that takes the next line while a tool call is in flight.
Receiving_Always(c) == pm[c].pc \in { "recv", "call" }

\* process_messages is at "async for message_line in read_stream_recv".
Receiving(c) == pm[c].pc = "recv"

\* A dispatcher whose handler keeps the first connection it was given.
Dispatch_FirstWriteWins(c) ==
  /\ st[c] = "active"
  /\ Receiving(c)
  /\ read_stream[c] # << >>
  /\ read_stream' = [read_stream EXCEPT ![c] = Tail(@)]
  /\ LET message_data == Parse(Head(read_stream[c]))
         method == message_data.method
         msg_id == message_data.id
     IN  IF method = Some("initialize")
         THEN /\ Send(c, InitializeResponse(msg_id))
              /\ UNCHANGED << base_url, api_base, pm >>
         ELSE IF method = Some("tools/list")
         THEN /\ Send(c, ToolsListResponse(msg_id))
              /\ UNCHANGED << base_url, api_base, pm >>
         ELSE IF method = Some("tools/call")
         THEN \E env \in EnvsFor(message_data.name, message_data.arguments) :
                LET out == call_tool(base_url, api_base, message_data.name,
                                     message_data.arguments, env)
                IN  /\ base_url' = IF IsNone(base_url) THEN out.base_url ELSE base_url
                    /\ api_base' = IF IsNone(api_base) THEN out.api_base ELSE api_base
                    /\ IF out.requests # << >>
                       THEN /\ pm' = [pm EXCEPT ![c] = [pc |-> "call",
                                                       response |-> ToolsCallResponse(msg_id, out),
                                                       requests |-> out.requests,
                                                       download |-> None]]
                            /\ UNCHANGED << write_stream, produced >>
                       ELSE /\ Send(c, ToolsCallResponse(msg_id, out))
                            /\ UNCHANGED pm
         ELSE IF StartsWithRaises(method)
         THEN \* caught by "except Exception as e" of the loop body and logged
              UNCHANGED << base_url, api_base, pm, write_stream, produced >>
         ELSE IF ~IsNone(method) /\ Truthy(Val(method)) /\ StartsWithNotifications(Val(method))
         THEN UNCHANGED << base_url, api_base, pm, write_stream, produced >>
         ELSE /\ Send(c, MethodNotFound(msg_id, method))
              /\ UNCHANGED << base_url, api_base, pm >>
  /\ UNCHANGED << call, seen, upload, st, sid, sessions, events, accepted, post, lastPost, nposts >>

\* One iteration of process_messages' loop, up to its first wait on the network:
\* the next line is taken from read_stream, parsed and dispatched by method.  A
\* call of ultimate_run_prg_binary that downloads its payload waits for the
\* download first and reads the connection when the download is back.
Dispatch(c) ==
  /\ st[c] = "active"
  /\ Receiving(c)
  /\ read_stream[c] # << >>
  /\ read_stream' = [read_stream EXCEPT ![c] = Tail(@)]
  /\ LET message_data == Parse(Head(read_stream[c]))
         method == message_data.method
         msg_id == message_data.id
     IN  IF method = Some("initialize")
         THEN /\ Send(c, InitializeResponse(msg_id))
              /\ UNCHANGED << base_url, api_base, pm >>
         ELSE IF method = Some("tools/list")
         THEN /\ Send(c, ToolsListResponse(msg_id))
              /\ UNCHANGED << base_url, api_base, pm >>
         ELSE IF method = Some("tools/call") /\ ParamsGetRaises(message_data)
         THEN \* raised where the call is logged, caught by "except Exception as e"
              \* of the loop body and logged
              UNCHANGED << base_url, api_base, pm, write_stream, produced >>
         ELSE IF method = Some("tools/call") /\ FetchesUrl(message_data.name, message_data.arguments)
         THEN \* suspended in session.get(download_url)
              /\ pm' = [pm EXCEPT ![c] = [pc |-> "download", response |-> NoResponse,
                                          requests |-> DownloadRequest(message_data.arguments),
                                          download |-> Some(message_data)]]
              /\ UNCHANGED << base_url, api_base, write_stream, produced >>
         ELSE IF method = Some("tools/call")
         THEN \E env \in EnvsFor(message_data.name, message_data.arguments) :
                LET out == call_tool(base_url, api_base, message_data.name,
                                     message_data.arguments, env)
                IN  /\ base_url' = out.base_url
                    /\ api_base' = out.api_base
                    /\ IF out.requests # << >>
                       THEN /\ pm' = [pm EXCEPT ![c] = [pc |-> "call",
                                                       response |-> ToolsCallResponse(msg_id, out),
                                                       requests |-> out.requests,
                                                       download |-> None]]
                            /\ UNCHANGED << write_stream, produced >>
                       ELSE /\ Send(c, ToolsCallResponse(msg_id, out))
                            /\ UNCHANGED pm
         ELSE IF StartsWithRaises(method)
         THEN \* caught by "except Exception as e" of the loop body and logged
              UNCHANGED << base_url, api_base, pm, write_stream, produced >>
         ELSE IF ~IsNone(method) /\ Truthy(Val(method)) /\ StartsWithNotifications(Val(method))
         THEN UNCHANGED << base_url, api_base, pm, write_stream, produced >>
         ELSE /\ Send(c, MethodNotFound(msg_id, method))
              /\ UNCHANGED << base_url, api_base, pm >>
  /\ UNCHANGED << call, seen, upload, st, sid, sessions, events, accepted, post, lastPost, nposts >>

\* The download of an ultimate_run_prg_binary call is back: the branch goes on
\* with the connection as it is now, and either returns an error or posts the
\* payload to the device and waits for its answer.
DownloadReturn(c) ==
  /\ st[c] = "active"
  /\ pm[c].pc = "download"
  /\ LET message_data == Val(pm[c].download)
     IN  \E env \in EnvsFor(message_data.name, message_data.arguments) :
           LET out == call_tool(base_url, api_base, message_data.name,
                                message_data.arguments, env)
           IN  IF Len(out.requests) > 1
               THEN /\ pm' = [pm EXCEPT ![c] = [pc |-> "call",
                                               response |-> ToolsCallResponse(message_data.id, out),
                                               requests |-> out.requests,
                                               download |-> None]]
                    /\ UNCHANGED << write_stream, produced >>
               ELSE /\ Send(c, ToolsCallResponse(message_data.id, out))
                    /\ pm' = [pm EXCEPT ![c] = [pc |-> "recv", response |-> NoResponse,
                                                requests |-> << >>, download |-> None]]
  /\ UNCHANGED << base_url, api_base, call, seen, upload, st, sid, sessions, read_stream, events,
                  accepted, post, lastPost, nposts >>

\* The device has answered the request of a tools/call: its response is sent
\* and the loop waits on read_stream again.
CallReturn(c) ==
  /\ st[c] = "active"
  /\ pm[c].pc = "call"
  /\ Send(c, pm[c].response)
  /\ pm' = [pm EXCEPT ![c] = [pc |-> "recv", response |-> NoResponse, requests |-> << >>,
                                  download |-> None]]
  /\ UNCHANGED << base_url, api_base, call, seen, upload, st, sid, sessions, read_stream, events,
                  accepted, post, lastPost, nposts >>

\* The push-stream connection closes (peer disconnect, write failure).  Once the
\* task group runs, the generator and process_messages are cancelled and
\* process_messages' finally deletes the registry entry under its session_id;
\* before that, the generator is dropped and nothing else runs.
Close(c) ==
  /\ st[c] \in { "endpoint", "active" }
  /\ st' = [st EXCEPT ![c] = "closed"]
  /\ IF st[c] = "active"
     THEN /\ pm' = [pm EXCEPT ![c] = [pc |-> "ended", response |-> NoResponse,
                                           requests |-> << >>, download |-> None]]
          /\ sessions' = IF sid[c] \in DOMAIN sessions THEN Del(sessions, sid[c]) ELSE sessions
     ELSE UNCHANGED << pm, sessions >>
  /\ UNCHANGED << base_url, api_base, call, seen, upload, sid, read_stream, write_stream, events,
                  accepted, produced, post, lastPost, nposts >>

\* ------------------------------------------------- WebServer.handle_messages

\* An answer of handle_messages: the HTTP status, whether the connection
\* registered under the session id was closed when the POST arrived, and whether
\* the message was enqueued.
Answer(status, closed, enqueued) ==
  [status |-> status, closed_at_arrival |-> closed, enqueued |-> enqueued]

\* handle_messages up to "await request.json()": 400 without a session_id, 404
\* for one that is not registered.  max bounds the POSTs of a run.
PostCheck(q, max) ==
  /\ IsNone(post)
  /\ nposts < max
  /\ nposts' = nposts + 1
  /\ IF IsNone(q) \/ Val(q) = << >>
     THEN /\ lastPost' = Answer(400, FALSE, FALSE)
          /\ post' = None
     ELSE IF Val(q) \notin DOMAIN sessions
     THEN /\ lastPost' = Answer(404, FALSE, FALSE)
          /\ post' = None
     ELSE /\ post' = Some([session_id |-> Val(q),
                           closed_at_arrival |-> st[sessions[Val(q)]] = "closed"])
          /\ UNCHANGED lastPost
  /\ UNCHANGED << base_url, api_base, call, seen, upload, st, sid, sessions, read_stream, write_stream,
                  events, pm, accepted, produced >>

\* A parser that accepts anything.
JsonFails_Never(body) == FALSE

\* await request.json() raises: the body is not JSON.
JsonFails(body) == body.shape = "invalid_json"

\* handle_messages from request.json() on: the body is validated and its
\* message sent to the read stream the registry holds under session_id now.
PostRead(body) ==
  /\ ~IsNone(post)
  /\ LET p == Val(post)
     IN  IF JsonFails(body)
         THEN /\ lastPost' = Answer(500, p.closed_at_arrival, FALSE)
              /\ UNCHANGED << read_stream, accepted >>
         ELSE IF body.shape \in { "not_object", "no_jsonrpc" }
         THEN /\ lastPost' = Answer(400, p.closed_at_arrival, FALSE)
              /\ UNCHANGED << read_stream, accepted >>
         ELSE IF p.session_id \notin DOMAIN sessions
         THEN /\ lastPost' = Answer(500, p.closed_at_arrival, FALSE)
              /\ UNCHANGED << read_stream, accepted >>
         ELSE LET c == sessions[p.session_id]
              IN  /\ Len(read_stream[c]) < StreamBuffer
                  /\ read_stream' = [read_stream EXCEPT ![c] = Append(@, Line(body))]
                  /\ accepted' = [accepted EXCEPT ![c] = Append(@, body)]
                  /\ lastPost' = Answer(200, p.closed_at_arrival, TRUE)
  /\ post' = None
  /\ UNCHANGED << base_url, api_base, call, seen, upload, st, sid, sessions, write_stream, events, pm,
                  produced, nposts >>

\* POST /upload-prg.
Upload(request, o) ==
  /\ upload' = [request |-> request, dev |-> o, api_before |-> api_base,
                answer |-> handle_upload_prg(api_base, request, o)]
  /\ UNCHANGED << base_url, api_base, call, seen, streamVars >>

\* ------------------------------------------------------ the push-stream server

Next ==
  \/ \E c \in Conns, q \in { None } \cup { Some(s) : s \in SuppliedIds } : handle_sse(c, q)
  \/ \E c \in Conns : StartTaskGroup(c)
  \/ \E c \in Conns : YieldMessage(c)
  \/ \E c \in Conns : Dispatch(c)
  \/ \E c \in Conns : CallReturn(c)
  \/ \E c \in Conns : Close(c)
  \/ \E q \in { Some(s) : s \in SessionIds } : PostCheck(q, MaxPosts)
  \/ \E body \in SessionMessages(nposts) : PostRead(body)

Spec == Init /\ [][Next]_vars

\* ------------------------------------------------------------ a single session

\* One push-stream connection and the full range of messages.
NextStream ==
  \/ \E q \in { None } \cup { Some(s) : s \in SuppliedIds } : handle_sse(1, q)
  \/ StartTaskGroup(1)
  \/ YieldMessage(1)
  \/ Dispatch(1)
  \/ CallReturn(1)
  \/ Close(1)
  \/ \E q \in { Some(s) : s \in SessionIds } : PostCheck(q, MaxStreamPosts)
  \/ \E body \in StreamMessages(nposts) : PostRead(body)

SpecStream == Init /\ [][NextStream]_vars

\* ------------------------------------------- two sessions and one connection

\* The bodies POSTed when two sessions use the device while one of them changes
\* the connection: a connection change, and a call that suspends in a download
\* before it posts to the device.
RaceMessages(n) ==
  { Message("rpc", Some("tools/call"), Some(n), Some("ultimate_set_connection"),
            [hostname |-> HostOf(n)]),
    Message("rpc", Some("tools/call"), Some(n), Some("ultimate_run_prg_binary"),
            [url |-> "dl.example/a.prg"]) }

NextRace ==
  \/ \E c \in Conns : handle_sse(c, None)
  \/ \E c \in Conns : StartTaskGroup(c)
  \/ \E c \in Conns : Dispatch(c)
  \/ \E c \in Conns : DownloadReturn(c)
  \/ \E c \in Conns : CallReturn(c)
  \/ \E c \in Conns : Close(c)
  \/ \E q \in { Some(Uuid4(c)) : c \in Conns } : PostCheck(q, MaxRacePosts)
  \/ \E body \in RaceMessages(nposts) : PostRead(body)

SpecRace == Init /\ [][NextRace]_vars

\* ------------------------------------------------- requests and their answers

\* The bodies POSTed by a peer that waits for the answer to each request:
\* initialize, tools/list, tools/call (of a device tool, of the connection tool,
\* and with params that are absent, null and an array), an unknown method, and
\* a notification.
AnswerMessages(n) ==
  { Message("rpc", Some("initialize"), Some(n), None, << >>),
    Message("rpc", Some("tools/list"), Some(n), None, << >>),
    Message("rpc", Some("tools/call"), Some(n), Some("ultimate_version"), << >>),
    Message("rpc", Some("tools/call"), Some(n), Some("ultimate_set_connection"),
            [hostname |-> HostOf(n)]),
    Message("rpc", Some("tools/call"), Some(n), None, << >>),
    WithParams(Message("rpc", Some("tools/call"), Some(n), None, << >>), "null"),
    WithParams(Message("rpc", Some("tools/call"), Some(n), None, << >>), "array"),
    Message("rpc", Some("foo/bar"), Some(n), None, << >>),
    Message("rpc", Some("notifications/initialized"), Some(n), None, << >>) }

NextAnswer ==
  \/ handle_sse(1, None)
  \/ StartTaskGroup(1)
  \/ YieldMessage(1)
  \/ Dispatch(1)
  \/ CallReturn(1)
  \/ Close(1)
  \/ PostCheck(Some(Uuid4(1)), MaxStreamPosts)
  \/ \E body \in AnswerMessages(nposts) : PostRead(body)

\* The event loop runs every task that can run: the generator is resumed once
\* its first event is written and whenever a line waits on the write stream,
\* process_messages whenever a line waits on the read stream, the device's
\* answer (or the client's timeout) ends every request, and the body of a POST
\* is read to its end.
SpecAnswer ==
  /\ Init /\ [][NextAnswer]_vars
  /\ WF_vars(StartTaskGroup(1))
  /\ WF_vars(YieldMessage(1))
  /\ WF_vars(Dispatch(1))
  /\ WF_vars(CallReturn(1))
  /\ WF_vars(\E body \in AnswerMessages(nposts) : PostRead(body))

\* ------------------------------------------------------- the handler, directly

\* A caller (handle_call_tool of the stdio server, or a test) awaits
\* handler.call_tool(name, arguments) and gets its result.
Invoke(tool_name, arguments, env) ==
  /\ call.state = "idle"
  /\ LET out == call_tool(base_url, api_base, tool_name, arguments, env)
     IN  /\ base_url' = out.base_url
         /\ api_base' = out.api_base
         /\ call' = [state |-> "returned", tool_name |-> tool_name, arguments |-> arguments,
                     env |-> env, base_before |-> base_url, api_before |-> api_base, out |-> out,
                     response |-> ToolsCallResponse(Some(1), out)]
  /\ UNCHANGED << seen, sessionVars >>

\* What an automated caller reads of a result and of the tools/call response
\* built from it, apart from the rendered text.
Structure(out, response) ==
  [isError |-> out.result.isError, items |-> Len(out.result.content),
   kind |-> response.kind, code |-> response.code]

\* The caller has taken the result.
Collect ==
  /\ call.state = "returned"
  /\ call' = NoCall
  /\ seen' = seen \cup { [errors |-> call.out.errors,
                           structure |-> Structure(call.out, call.response)] }
  /\ UNCHANGED << base_url, api_base >>
  /\ UNCHANGED sessionVars

\* The host specifications set_base_url is given: with and without a scheme,
\* with trailing slashes, with a port, empty.
HostSpecs ==
  { << "192.168.1.64" >>, << "192.168.1.64", "/" >>, << "192.168.1.64", "/", "/" >>, << "192.168.1.64", ":", "6464" >>,
    << "http", ":", "/", "/", "192.168.1.64" >>, << "http", ":", "/", "/", "192.168.1.64", "/" >>,
    << "https", ":", "/", "/", "192.168.1.64" >>, << "httphost" >>, << "h2" >>, << >> }

\* handler.set_base_url(url), as __init__ and ultimate_set_connection call it.
Configure(url) ==
  /\ call.state = "idle"
  /\ base_url' = set_base_url(url).base_url
  /\ api_base' = set_base_url(url).api_base
  /\ UNCHANGED << call, seen, sessionVars >>

\* The tools that set, show and use the connection.
ConnectionTools ==
  { Some("ultimate_set_connection"), Some("ultimate_get_connection"), Some("ultimate_version") }

\* set_base_url with a host specification or with the base endpoint it produced
\* before, and the calls that show and use the result.
NextConfigure ==
  \/ \E url \in HostSpecs \cup (IF IsNone(base_url) THEN {} ELSE { Val(base_url) }) :
       Configure(url)
  \/ \E tool_name \in ConnectionTools :
       \E arguments \in BagsFor(tool_name) :
         \E env \in EnvsFor(tool_name, arguments) : Invoke(tool_name, arguments, env)
  \/ Collect

SpecConfigure == Init /\ [][NextConfigure]_vars

\* The direct-upload endpoint of a server whose connection is set at startup
\* or not at all, and changed while it runs.
NextUpload ==
  \/ \E url \in { << "192.168.1.64" >>, << "h2", ":", "6464" >> } : Configure(url)
  \/ \E request \in UploadRequests, o \in DeviceOutcomes : Upload(request, o)

SpecUpload == Init /\ [][NextUpload]_vars

NextTools ==
  \/ \E tool_name \in CallerToolNames :
       \E arguments \in BagsFor(tool_name) :
         \E env \in EnvsFor(tool_name, arguments) : Invoke(tool_name, arguments, env)
  \/ Collect

SpecTools == Init /\ [][NextTools]_vars

\* ================================================================== claims

Open(c) == st[c] \in { "endpoint", "active" }

\* The JSON-RPC messages of the events a stream has carried.
RECURSIVE MessagesOf(_)
MessagesOf(es) ==
  IF es = << >> THEN << >>
  ELSE (IF Head(es).event = "message" THEN << Head(es).data >> ELSE << >>)
       \o MessagesOf(Tail(es))

RECURSIVE Unlined(_)
\* The responses of the lines of a write stream.
Unlined(ls) == IF ls = << >> THEN << >> ELSE << Parse(Head(ls)) >> \o Unlined(Tail(ls))

\* The text of a call's result.
TextOf(out) == out.result.content[1].text

\* The call the direct caller has back, and the catalog entry of its tool.
CallReturned == call.state = "returned"
InCatalog(tool_name) == ~IsNone(tool_name) /\ Val(tool_name) \in ToolNames
RequiredOf(tool_name) == Range(ToolDef(Val(tool_name)).inputSchema.required)

\* ---- C1
\* C1: once a push-stream connection has closed, no registry entry holds its
\* streams any more, and a POST to /messages that arrives when the connection
\* registered under its session id is closed is answered 404 and not enqueued.
C1_ClosedSessionRejected ==
  /\ \A c \in Conns : st[c] = "closed" => \A s \in DOMAIN sessions : sessions[s] # c
  /\ lastPost.closed_at_arrival => (lastPost.status = 404 /\ ~lastPost.enqueued)

\* ---- C2
\* C2: every response put on a session's outbound queue carries an id, and that
\* id is the id of a message accepted before on the same session's inbound queue.
C2_ResponseIdsWereAccepted ==
  \A c \in Conns : \A i \in 1..Len(produced[c]) :
    /\ ~IsNone(produced[c][i].id)
    /\ \E j \in 1..Len(accepted[c]) : accepted[c][j].id = produced[c][i].id

\* ---- C3
\* C3: every open push-stream connection owns the registry entry under its
\* session id, also when two connections were opened with the same id.
C3_EachOpenConnectionOwnsItsEntry ==
  \A c \in Conns : Open(c) => (sid[c] \in DOMAIN sessions /\ sessions[sid[c]] = c)

\* ---- C4
\* Arguments a tool accepts, in an environment where they can be used: the
\* required ones are present, the file ultimate_write_memory_binary names can be
\* read, and ultimate_run_prg_binary is given a source that yields a PRG of
\* two bytes or more.
ValidArguments(tool_name, arguments, env) ==
  /\ RequiredOf(tool_name) \subseteq DOMAIN arguments
  /\ tool_name = Some("ultimate_write_memory_binary") => env.file >= 1
  /\ tool_name = Some("ultimate_run_prg_binary") =>
       LET p == PrgPayload(arguments, env) IN IsNone(p.early) /\ p.len >= 2

\* C4: with no connection configured, every catalog tool other than
\* ultimate_set_connection and ultimate_get_connection, called with valid
\* arguments, returns the fixed "No C64 host configured" error and makes no
\* network request.
C4_NotConfiguredError ==
  ( /\ CallReturned
    /\ IsNone(call.base_before) /\ IsNone(call.api_before)
    /\ InCatalog(call.tool_name)
    /\ call.tool_name \notin { Some("ultimate_set_connection"), Some("ultimate_get_connection") }
    /\ ValidArguments(call.tool_name, call.arguments, call.env) )
  => /\ TextOf(call.out) = << "Errors: " >> \o NoHostMessage
     /\ call.out.requests = << >>

\* ---- C5
\* C5: a call of a catalog tool whose argument bag omits a required argument
\* returns (does not raise) an error naming a missing field, issues no request
\* and leaves the connection as it was.
C5_MissingRequiredArgument ==
  ( /\ CallReturned
    /\ InCatalog(call.tool_name)
    /\ ~(RequiredOf(call.tool_name) \subseteq DOMAIN call.arguments) )
  => /\ ~call.out.raised
     /\ \E k \in RequiredOf(call.tool_name) \ DOMAIN call.arguments :
          TextOf(call.out) = << "Error: ", "'", k, "'" >>
     /\ call.out.requests = << >>
     /\ base_url = call.base_before /\ api_base = call.api_before

\* A configured handler was called with the last of three required arguments
\* missing.
C5_Witness ==
  /\ CallReturned
  /\ call.tool_name = Some("ultimate_set_config_item")
  /\ DOMAIN call.arguments = { "category", "item" }
  /\ ~IsNone(call.api_before)
  /\ TextOf(call.out) = << "Error: ", "'", "value", "'" >>

\* ---- C6
\* C6: a call with a name outside the catalog (a null name included) returns an
\* "Unknown tool" error whose text contains the name, does not raise, issues no
\* request and leaves the connection as it was.
C6_UnknownTool ==
  ( CallReturned /\ ~InCatalog(call.tool_name) )
  => /\ ~call.out.raised
     /\ TextOf(call.out) = << "Errors: ", "Unknown tool: ", FmtToken(call.tool_name) >>
     /\ FmtToken(call.tool_name) \in Range(TextOf(call.out))
     /\ call.out.requests = << >>
     /\ call.response.kind = "content"
     /\ base_url = call.base_before /\ api_base = call.api_before

\* A configured handler was called with a null name.
C6_Witness ==
  /\ CallReturned
  /\ IsNone(call.tool_name)
  /\ ~IsNone(call.api_before)
  /\ "None" \in Range(TextOf(call.out))

\* ---- C7
\* C7: of any two results the caller has taken, one from a result dict with a
\* non-empty errors list and one without, the two differ in what the caller
\* reads apart from the text.
C7_OutcomeDistinguishable ==
  \A a \in seen, b \in seen : (a.errors /\ ~b.errors) => a.structure # b.structure

\* ---- C8
\* C8: the response to a handled tools/list request carries the request's id
\* and one entry per Tool of get_tools, in order, with the Tool's name,
\* description and inputSchema; every tools response is of that form.
C8_ToolsListRoundTrip ==
  \A c \in Conns :
    /\ \A i \in 1..Len(produced[c]) :
         produced[c][i].kind = "tools" =>
           /\ Len(produced[c][i].tools) = Len(get_tools)
           /\ \A j \in 1..Len(get_tools) :
                /\ produced[c][i].tools[j].name = get_tools[j].name
                /\ produced[c][i].tools[j].description = get_tools[j].description
                /\ produced[c][i].tools[j].inputSchema = get_tools[j].inputSchema
    /\ \A i \in 1..(Len(accepted[c]) - Len(read_stream[c])) :
         accepted[c][i].method = Some("tools/list") =>
           \E k \in 1..Len(produced[c]) :
             produced[c][k].kind = "tools" /\ produced[c][k].id = accepted[c][i].id

\* The stream of a session has carried the response to a tools/list request.
C8_Witness ==
  \E c \in Conns : \E i \in 1..Len(events[c]) :
    /\ events[c][i].event = "message"
    /\ events[c][i].data.kind = "tools"
    /\ events[c][i].data.id = Some(1)
    /\ Len(events[c][i].data.tools) = Len(tools)

\* ---- C9
\* C9: while a connection is open, the message events its stream has carried,
\* followed by the lines still on its outbound queue, are the responses put on
\* the queue, each once and in the order produced.
C9_OutboundFifo ==
  \A c \in Conns :
    Open(c) => MessagesOf(events[c]) \o Unlined(write_stream[c]) = produced[c]

\* A stream has carried two responses while a third message waits.
C9_Witness ==
  \E c \in Conns :
    /\ Open(c)
    /\ Len(MessagesOf(events[c])) = 2
    /\ MessagesOf(events[c])[1] # MessagesOf(events[c])[2]

\* ---- C10
\* The ids of the responses to a sequence of messages handled to completion:
\* every message produces one but a notification and a message whose handling
\* raises.
RECURSIVE ResponseIds(_)
ResponseIds(ms) ==
  IF ms = << >> THEN << >>
  ELSE (IF \/ StartsWithRaises(Head(ms).method)
           \/ Head(ms).method = Some("tools/call") /\ ParamsGetRaises(Head(ms))
           \/ ~IsNone(Head(ms).method) /\ StartsWithNotifications(Val(Head(ms).method))
        THEN << >> ELSE << Head(ms).id >>) \o ResponseIds(Tail(ms))

RECURSIVE IdsOf(_)
IdsOf(rs) == IF rs = << >> THEN << >> ELSE << Head(rs).id >> \o IdsOf(Tail(rs))

\* The messages process_messages has taken from the read stream.
Taken(c) == SubSeq(accepted[c], 1, Len(accepted[c]) - Len(read_stream[c]))

\* C10: a session's inbound queue holds the accepted messages not yet taken, in
\* order; the responses put on the outbound queue are those of the messages
\* taken, in the order accepted, the one in flight excepted; and the stream has
\* carried a prefix of them.  A call in flight when the connection closes is
\* cancelled with the dispatcher and leaves no response.
C10_InOrderDispatch ==
  \A c \in Conns :
    LET butLast == SubSeq(Taken(c), 1, Len(Taken(c)) - 1)
        sent == IdsOf(MessagesOf(events[c]))
    IN  /\ Len(read_stream[c]) <= Len(accepted[c])
        /\ Unlined(read_stream[c])
             = SubSeq(accepted[c], Len(Taken(c)) + 1, Len(accepted[c]))
        /\ CASE pm[c].pc \in { "call", "download" } -> IdsOf(produced[c]) = ResponseIds(butLast)
             [] pm[c].pc = "ended" -> \/ IdsOf(produced[c]) = ResponseIds(Taken(c))
                                      \/ /\ Taken(c) # << >>
                                         /\ IdsOf(produced[c]) = ResponseIds(butLast)
             [] OTHER -> IdsOf(produced[c]) = ResponseIds(Taken(c))
        /\ pm[c].pc = "call" =>
             /\ Taken(c) # << >>
             /\ pm[c].response.id = Taken(c)[Len(Taken(c))].id
        /\ Len(sent) <= Len(produced[c])
        /\ sent = SubSeq(IdsOf(produced[c]), 1, Len(sent))

\* A request waits on the inbound queue while the call before it is in flight,
\* after an earlier response.
C10_Witness ==
  /\ pm[1].pc = "call"
  /\ read_stream[1] # << >>
  /\ produced[1] # << >>

\* ---- C11
\* C11: the first event of every stream is an endpoint event whose data is
\* "/messages?session_id=" followed by the session's id, and every later event
\* of the stream is a message event.
C11_EndpointEventFirst ==
  \A c \in Conns :
    st[c] # "idle" =>
      /\ events[c] # << >>
      /\ events[c][1].event = "endpoint"
      /\ events[c][1].endpoint = << "/messages?session_id=" >> \o sid[c]
      /\ \A i \in 2..Len(events[c]) : events[c][i].event = "message"

\* Two streams opened with a generated and a supplied id have each carried their
\* endpoint event, and one of them a message event after it.
C11_Witness ==
  /\ \A c \in Conns : st[c] # "idle"
  /\ sid[1] # sid[2]
  /\ \E c \in Conns : Len(events[c]) >= 2 /\ events[c][2].event = "message"

\* ---- C12
\* A tools/call message whose dispatch faults: a catalog tool called without one
\* of the arguments its branch subscripts.
Faults(m) ==
  /\ m.method = Some("tools/call")
  /\ InCatalog(m.name)
  /\ ~IsNone(MissingKey(m.arguments, Val(BranchOf(m.name)).needs))

\* C12: every handled tools/call whose dispatch faults has, on the outbound
\* queue, an error response with code -32603 and its id, and its session stays
\* registered while the connection is open.
C12_FaultIsInternalError ==
  \A c \in Conns : \A i \in 1..Len(Taken(c)) :
    Faults(Taken(c)[i]) =>
      /\ \E k \in 1..Len(produced[c]) :
           /\ produced[c][k].id = Taken(c)[i].id
           /\ produced[c][k].kind = "error"
           /\ produced[c][k].code = -32603
      /\ st[c] = "active" => sid[c] \in DOMAIN sessions

\* ---- C13
\* A message whose method is none of initialize, tools/list, tools/call and does
\* not start with "notifications/".
OtherMethod(m) ==
  /\ m.method \notin { Some("initialize"), Some("tools/list"), Some("tools/call") }
  /\ ~(~IsNone(m.method) /\ Val(m.method) \notin NotStr
       /\ StartsWithNotifications(Val(m.method)))

\* C13: for every id, the session has produced as many -32601 error responses
\* with that id as it has handled messages with that id whose method is none of
\* initialize, tools/list, tools/call and not a notification.
C13_MethodNotFound ==
  \A c \in Conns :
    \A x \in { Taken(c)[i].id : i \in 1..Len(Taken(c)) }
             \cup { produced[c][k].id : k \in 1..Len(produced[c]) } :
      Cardinality({ i \in 1..Len(Taken(c)) : OtherMethod(Taken(c)[i]) /\ Taken(c)[i].id = x })
        = Cardinality({ k \in 1..Len(produced[c]) :
                          /\ produced[c][k].id = x
                          /\ produced[c][k].kind = "error"
                          /\ produced[c][k].code = -32601 })

\* ---- C14
\* A message of the notification class.
IsNotification(m) == m.method = Some("notifications/initialized")

\* C14: the step in which the dispatcher takes a notification, with or without
\* an id, from the inbound queue changes nothing else: nothing is put on the
\* outbound queue, the connection, the registry, the streams' events and the
\* dispatcher's position stay as they were.
C14_NotificationIsSilent ==
  [][ \A c \in Conns :
        ( /\ read_stream[c] # << >>
          /\ read_stream'[c] = Tail(read_stream[c])
          /\ IsNotification(Parse(Head(read_stream[c]))) )
        => /\ produced' = produced
           /\ write_stream' = write_stream
           /\ base_url' = base_url /\ api_base' = api_base
           /\ sessions' = sessions /\ st' = st /\ pm' = pm
           /\ events' = events /\ accepted' = accepted ]_vars

\* A notification carrying an id was handled, nothing was produced for it, and
\* the request after it has its response.
C14_Witness ==
  /\ Len(Taken(1)) = 2
  /\ IsNotification(Taken(1)[1]) /\ Taken(1)[1].id = Some(1)
  /\ Taken(1)[2].method = Some("tools/list")
  /\ IdsOf(produced[1]) = << Some(2) >>
  /\ produced[1][1].kind = "tools"

\* ---- C15
\* The messages a dispatcher has handled to completion.
Done(c) ==
  IF pm[c].pc \in { "call", "download" }
  THEN SubSeq(Taken(c), 1, Len(Taken(c)) - 1) ELSE Taken(c)

\* After a message whose handling raised, the dispatcher of an open connection
\* still runs, its session is still registered and every request it has handled
\* since has its response.
AfterRaise ==
  \A c \in Conns : \A i \in 1..Len(Done(c)) :
    ( StartsWithRaises(Done(c)[i].method) /\ st[c] = "active" ) =>
      /\ pm[c].pc \in { "recv", "call" }
      /\ sid[c] \in DOMAIN sessions
      /\ \A j \in (i + 1)..Len(Done(c)) :
           ResponseIds(<< Done(c)[j] >>) # << >> =>
             \E k \in 1..Len(produced[c]) : produced[c][k].id = Done(c)[j].id

\* After a session has closed, every other connection whose dispatcher runs is
\* still registered under its session id, so that requests reach it.
AfterClose ==
  \A c \in Conns, d \in Conns :
    ( c # d /\ st[d] = "closed" /\ st[c] = "active" ) =>
      ( sid[c] \in DOMAIN sessions /\ sessions[sid[c]] = c )

\* C15: a message whose handling raises leaves its session registered and
\* serving, and a session that closes leaves every other open session
\* registered and serving.
C15_FailuresAreContained == AfterRaise /\ AfterClose

\* ---- C16
\* C16: nothing but a JSON object with a jsonrpc member is ever on an inbound
\* queue, and the step in which handle_messages answers a POST that it does not
\* enqueue (a body that is not JSON among them) changes no queue, no stream, no
\* registry entry, no dispatcher and no connection.
C16_UnparsableBodyIsDropped ==
  /\ [](\A c \in Conns :
          /\ \A i \in 1..Len(accepted[c]) : accepted[c][i].shape = "rpc"
          /\ \A i \in 1..Len(read_stream[c]) : Parse(read_stream[c][i]).shape = "rpc")
  /\ [][ ( ~IsNone(post) /\ IsNone(post') /\ ~lastPost'.enqueued )
         => UNCHANGED << read_stream, accepted, write_stream, events, produced,
                         sessions, st, sid, pm, base_url, api_base >> ]_vars

\* A body that is not JSON was POSTed to the live session after a request that
\* was answered; the session is registered and its queues hold what they held.
C16_Witness ==
  /\ lastPost.status = 500 /\ ~lastPost.closed_at_arrival
  /\ st[1] = "active" /\ sid[1] \in DOMAIN sessions
  /\ nposts = 2 /\ IsNone(post)
  /\ Len(accepted[1]) = 1 /\ read_stream[1] = << >>
  /\ Len(produced[1]) = 1 /\ Len(events[1]) = 2

\* ---- C17
\* The returned call went through make_request: a branch that only makes the
\* request, with every argument it subscripts present.
ViaMakeRequest ==
  /\ CallReturned
  /\ InCatalog(call.tool_name)
  /\ Val(BranchOf(call.tool_name)).kind = "request"
  /\ IsNone(MissingKey(call.arguments, Val(BranchOf(call.tool_name)).needs))

\* What make_request returned to that call.
MadeRequest ==
  LET b == Val(BranchOf(call.tool_name))
  IN  make_request(call.api_before, b.verb, Endpoint(b.path, call.arguments),
                   Params(b.query, call.arguments),
                   IF b.data = "" THEN << >> ELSE << "json", call.arguments[b.data] >>,
                   call.env.dev)

\* The outcome of make_request by case.  parsed: whether the JSON case asks for
\* a body that parses.
MakeRequestCases(parsed) ==
  LET r == MadeRequest
      o == call.env.dev
      b == Val(BranchOf(call.tool_name))
  IN  /\ ~call.out.raised
      /\ call.out = Rendered(r.result, r.requests, call.base_before, call.api_before)
      /\ IF IsNone(call.api_before)
         THEN r.result = Errs(NoHostMessage) /\ r.requests = << >>
         ELSE /\ Len(r.requests) = 1
              /\ r.requests[1].verb = b.verb
              /\ r.requests[1].url
                   = Val(call.api_before) \o << "/" >> \o Endpoint(b.path, call.arguments)
              /\ o.status = 204 => r.result = Ok(<< "ok", "true" >>)
              /\ (o.status = 200 /\ o.json /\ (parsed => o.valid)) => r.result = DeviceJson(o)
              /\ (parsed /\ o.status = 200 /\ o.json /\ ~o.valid) =>
                   ( /\ Len(r.result.errors) = 1
                     /\ r.result.errors[1][1] = "Request failed: " )
              /\ (o.status = 200 /\ ~o.json) => r.result = Ok(<< "data", "hex" >>)
              /\ o.status \notin { 0, 200, 204 } =>
                   r.result = Errs(<< "HTTP ", StatusText(o), ": ", "body text" >>)
              /\ o.status = 0 => ( /\ Len(r.result.errors) = 1
                                   /\ r.result.errors[1][1] = "Request failed: " )

C18_ConfigureIdempotent ==
  [][ /\ \A url \in HostSpecs :
           Configure(url) =>
             /\ base_url' = set_base_url(url).base_url
             /\ api_base' = Some(Val(base_url') \o << "/", "v1" >>)
             /\ ( base_url = set_base_url(url).base_url /\ api_base = set_base_url(url).api_base )
                  => UNCHANGED << base_url, api_base >>
      /\ ( ~IsNone(base_url) /\ api_base = Some(Val(base_url) \o << "/", "v1" >>)
           /\ Configure(Val(base_url)) )
           => UNCHANGED << base_url, api_base >>
      /\ ( call'.state = "returned" /\ call'.tool_name = Some("ultimate_version")
           /\ ~IsNone(api_base) )
           => ( /\ Len(call'.out.requests) = 1
                /\ call'.out.requests[1].url = Val(api_base) \o << "/", "version" >> ) ]_vars

\* After set_base_url with a host specification that has no scheme and a
\* trailing slash, a request went to the normalised endpoint.
C18_Witness ==
  /\ base_url = Some(<< "http", ":", "/", "/", "192.168.1.64" >>)
  /\ base_url = set_base_url(<< "192.168.1.64", "/" >>).base_url
  /\ base_url = set_base_url(Val(base_url)).base_url
  /\ CallReturned /\ call.tool_name = Some("ultimate_version")
  /\ Len(call.out.requests) = 1
  /\ call.out.requests[1].url = << "http", ":", "/", "/", "192.168.1.64", "/", "v1", "/", "version" >>

\* ---- C19
\* The endpoint ultimate_set_connection makes of a host name and a port.
EndpointOf(arguments) ==
  << "http", ":", "/", "/", arguments["hostname"] >>
  \o (IF Has(arguments, "port") /\ arguments["port"] \notin Falsy
      THEN << ":", arguments["port"] >> ELSE << >>)

\* C19: a returned ultimate_set_connection (given a host name) or
\* ultimate_get_connection has issued no request, configured or not;
\* set_connection reports the endpoint that is the connection from then on;
\* get_connection changes nothing and returns the current base endpoint, null
\* when none is set; and the connection changes in no step but a
\* set_connection, so that a get_connection returns what the last
\* set_connection reported.
C19_ConnectionToolsAreLocal ==
  /\ []( ( CallReturned /\ call.tool_name = Some("ultimate_set_connection")
           /\ Has(call.arguments, "hostname") )
         => /\ call.out.requests = << >>
            /\ base_url = Some(EndpointOf(call.arguments))
            /\ api_base = Some(EndpointOf(call.arguments) \o << "/", "v1" >>)
            /\ TextOf(call.out)
                 = << "{", "ok", "true", "message", "Connection set to " >>
                   \o Val(base_url) \o << "}" >> )
  /\ []( ( CallReturned /\ call.tool_name = Some("ultimate_get_connection") )
         => /\ call.out.requests = << >>
            /\ base_url = call.base_before /\ api_base = call.api_before
            /\ TextOf(call.out)
                 = << "{", "base_url" >>
                   \o (IF IsNone(base_url) THEN << "null" >> ELSE Val(base_url))
                   \o << "}" >> )
  /\ [][ ( base_url' # base_url \/ api_base' # api_base )
         => /\ call'.state = "returned"
            /\ call'.tool_name = Some("ultimate_set_connection")
            /\ Has(call'.arguments, "hostname") ]_vars

\* ultimate_get_connection returned the endpoint of a set_connection with a
\* host name and a port.
C19_Witness ==
  /\ CallReturned /\ call.tool_name = Some("ultimate_get_connection")
  /\ call.base_before = Some(<< "http", ":", "/", "/", "192.168.1.64", ":", "6464" >>)
  /\ TextOf(call.out) = << "{", "base_url", "http", ":", "/", "/", "192.168.1.64", ":", "6464", "}" >>
  /\ call.out.requests = << >>

\* ---- C20
\* The step in which the dispatcher of c takes a message.
Takes(c) == read_stream[c] # << >> /\ read_stream'[c] = Tail(read_stream[c])

\* The message it takes is a call of tool_name.
Calls(c, tool_name) ==
  /\ Parse(Head(read_stream[c])).method = Some("tools/call")
  /\ Parse(Head(read_stream[c])).name = Some(tool_name)

\* C20: the sessions share one connection.  The step in which any session
\* executes a set_connection leaves the endpoint of that call as the connection,
\* whatever it was; no other step changes it; and a device call that any
\* session starts goes to the connection as it is then, or nowhere if there is
\* none.
C20_LastWriteWins ==
  [][ /\ \A c \in Conns :
           ( Takes(c) /\ Calls(c, "ultimate_set_connection")
             /\ Has(Parse(Head(read_stream[c])).arguments, "hostname") )
           => /\ base_url' = Some(EndpointOf(Parse(Head(read_stream[c])).arguments))
              /\ api_base' = Some(Val(base_url') \o << "/", "v1" >>)
      /\ ( \A c \in Conns : ~(Takes(c) /\ Calls(c, "ultimate_set_connection")) )
           => UNCHANGED << base_url, api_base >>
      /\ \A c \in Conns :
           ( Takes(c) /\ Calls(c, "ultimate_version") )
           => IF IsNone(api_base)
              THEN pm'[c].pc = "recv" /\ pm'[c].requests = << >>
              ELSE /\ pm'[c].pc = "call"
                   /\ Len(pm'[c].requests) = 1
                   /\ pm'[c].requests[1].url = Val(api_base) \o << "/", "version" >> ]_vars

\* Two sessions have each executed a set_connection, for different hosts; the
\* one POSTed first was executed last and its endpoint is the connection.
C20_Witness ==
  /\ Len(accepted[1]) = 1 /\ Len(accepted[2]) = 1
  /\ accepted[1][1].name = Some("ultimate_set_connection")
  /\ accepted[2][1].name = Some("ultimate_set_connection")
  /\ accepted[1][1].arguments # accepted[2][1].arguments
  /\ Len(produced[1]) = 1 /\ Len(produced[2]) = 1
  /\ \E c \in Conns :
       /\ accepted[c][1].id = Some(1)
       /\ base_url = Some(EndpointOf(accepted[c][1].arguments))

\* ---- C21
\* The base endpoints ultimate_set_connection can leave.
Endpoints == { EndpointOf([hostname |-> h]) : h \in ArgValues("hostname") }

\* The device request of the call a session has in flight.
DeviceRequest(p) == p.requests[Len(p.requests)]

\* The endpoint f-string of the tool of a message.
EndpointFor(m) == Endpoint(Val(BranchOf(m.name)).path, m.arguments)

\* C21: the device request of every call in flight targets one of the base
\* endpoints followed by "/v1/" and the tool's path, never a mixture and never
\* an absent endpoint; the step that issues it targets the connection as it is
\* in that step, which is the old one or, when a connection change came while
\* the call was suspended, the new one; and the request of a call in flight
\* stays what it is, also in a step that changes the connection.
C21_RequestTargetsWholeEndpoint ==
  /\ [](\A c \in Conns :
          pm[c].pc = "call" =>
            \E e \in Endpoints :
              DeviceRequest(pm[c]).url
                = e \o << "/", "v1", "/" >> \o EndpointFor(Taken(c)[Len(Taken(c))]))
  /\ [][ \A c \in Conns :
           /\ ( pm[c].pc # "call" /\ pm'[c].pc = "call" )
                => /\ ~IsNone(api_base)
                   /\ UNCHANGED << base_url, api_base >>
                   /\ DeviceRequest(pm'[c]).url
                        = Val(api_base) \o << "/", "runners", ":", "run_prg" >>
           /\ ( pm[c].pc = "call" /\ pm'[c].pc = "call" )
                => pm'[c].requests = pm[c].requests
           /\ ( pm[c].pc = "download" /\ pm'[c].pc = "download" )
                => pm'[c] = pm[c] ]_vars

\* A call that was suspended in its download while another session changed the
\* connection has posted to the new endpoint, and the connection has changed
\* again since: the request in flight still targets the endpoint it was issued to.
C21_Witness ==
  \E c \in Conns :
    /\ pm[c].pc = "call"
    /\ Len(pm[c].requests) = 2
    /\ pm[c].requests[2].url
         = << "http", ":", "/", "/", "h2", "/", "v1", "/", "runners", ":", "run_prg" >>
    /\ api_base = Some(<< "http", ":", "/", "/", "192.168.1.64", "/", "v1" >>)

\* ---- C22
\* The payload of an upload in one of the three accepted encodings.
Accepted(request) ==
  \/ request.content_type = "multipart/form-data" /\ request.field = "file"
  \/ request.content_type \in { "application/octet-stream", "application/x-binary" }
  \/ request.content_type = "application/json" /\ request.field = "base64"

PayloadOf(request) ==
  IF request.content_type = "application/json" THEN B64Decode(request.data) ELSE request.data

\* C22: an upload in one of the three accepted encodings whose payload has no
\* bytes is answered 400 with an error, and no request is made to the device,
\* whether a connection is configured or not.
C22_EmptyUploadRejected ==
  ( Accepted(upload.request) /\ PayloadOf(upload.request) = << >> )
  => /\ upload.answer.status = 400
     /\ upload.answer.error # << >>
     /\ upload.answer.success # "true"
     /\ upload.answer.requests = << >>

\* A configured server was sent a JSON upload whose base64 text decodes to no
\* bytes, and answered 400.
C22_Witness ==
  /\ ~IsNone(upload.api_before)
  /\ upload.request = UploadRequest("application/json", "base64", B64Encode(<< >>))
  /\ upload.answer.status = 400

\* ---- C23
\* C23: an upload in an accepted encoding with a payload, sent to a configured
\* server, makes one POST to runners:run_prg of the connection whose body is
\* the payload; the answer reports success exactly when the device answered
\* 200 or 204; and when the device answered another status the answer is an
\* error with that status.
C23_UploadMirrorsDevice ==
  ( /\ Accepted(upload.request) /\ PayloadOf(upload.request) # << >>
    /\ ~IsNone(upload.api_before) )
  => /\ Len(upload.answer.requests) = 1
     /\ upload.answer.requests[1].verb = "POST"
     /\ upload.answer.requests[1].url
          = Val(upload.api_before) \o << "/", "runners", ":", "run_prg" >>
     /\ upload.answer.requests[1].body = PayloadOf(upload.request)
     /\ upload.answer.success = "true" <=> upload.dev.status \in { 200, 204 }
     /\ upload.dev.status \notin { 0, 200, 204 } =>
          /\ upload.answer.status = upload.dev.status
          /\ upload.answer.success = "false"
          /\ upload.answer.error # << >>

\* ---- C24
\* The requests of a call that went to the device at base: those whose URL
\* begins with base.
RequestsTo(base, requests) ==
  SelectSeq(requests, LAMBDA r : Len(r.url) >= Len(base) /\ SubSeq(r.url, 1, Len(base)) = base)

\* A returned call of a device tool with valid arguments on a configured handler.
DeviceCall ==
  /\ CallReturned
  /\ InCatalog(call.tool_name)
  /\ call.tool_name \notin { Some("ultimate_set_connection"), Some("ultimate_get_connection") }
  /\ ValidArguments(call.tool_name, call.arguments, call.env)
  /\ ~IsNone(call.base_before)

\* C24: a call of a device tool with valid arguments on a handler configured to
\* base B has issued one request to the device and no other but the download of
\* its payload; the verb is GET, PUT or POST; the URL is B, "/v1/" and the
\* tool's path; every query parameter carries an argument of the call, the
\* default 256 or the empty string.  ultimate_read_memory at 192.168.1.64 with
\* address D020 and length 1 issues GET
\* http://192.168.1.64/v1/machine:readmem?address=D020&length=1, and with no
\* length the length is 256.
C24_OneRequestPerCall ==
  DeviceCall =>
    LET B == Val(call.base_before)
        b == Val(BranchOf(call.tool_name))
        dev == RequestsTo(B, call.out.requests)
    IN  /\ Len(dev) = 1
        /\ Len(call.out.requests) = (IF FetchesUrl(call.tool_name, call.arguments) THEN 2 ELSE 1)
        /\ dev[1].verb \in { "GET", "PUT", "POST" }
        /\ dev[1].url = B \o << "/", "v1", "/" >> \o Endpoint(b.path, call.arguments)
        /\ \A i \in 1..Len(dev[1].params) :
             \/ \E k \in DOMAIN call.arguments : dev[1].params[i][2] = call.arguments[k]
             \/ dev[1].params[i] \in { << "length", "256" >>, << "file", "''" >> }
        /\ ( /\ call.tool_name = Some("ultimate_read_memory")
             /\ call.base_before = set_base_url(<< "192.168.1.64" >>).base_url )
           => /\ dev[1].verb = "GET"
              /\ dev[1].url = << "http", ":", "/", "/", "192.168.1.64", "/", "v1", "/",
                                 "machine", ":", "readmem" >>
              /\ dev[1].params
                   = << << "address", "D020" >>,
                        << "length", IF Has(call.arguments, "length") THEN "1" ELSE "256" >> >>
              /\ dev[1].body = << >>

\* ultimate_read_memory was called with address D020 and length 1 on a handler
\* configured to 192.168.1.64, and the device did not answer.
C24_Witness ==
  /\ DeviceCall
  /\ call.tool_name = Some("ultimate_read_memory")
  /\ call.arguments = [address |-> "D020", length |-> "1"]
  /\ call.base_before = Some(<< "http", ":", "/", "/", "192.168.1.64" >>)
  /\ call.env.dev.status = 0
  /\ Len(call.out.requests) = 1

\* ---- C25
\* The branches of call_tool that compare tool_name with name.
BranchesFor(name) == { i \in 1..Len(branches) : branches[i].name = name }

\* C25: the names of get_tools are pairwise distinct; each of them is compared
\* with by exactly one branch of call_tool; every branch but the final else
\* compares with a name of get_tools; and a returned call was answered by the
\* final else exactly when its name is not in the catalog.
C25_DispatchTotal ==
  /\ \A i \in 1..Len(get_tools), j \in 1..Len(get_tools) :
       i # j => get_tools[i].name # get_tools[j].name
  /\ \A i \in 1..Len(get_tools) : Cardinality(BranchesFor(get_tools[i].name)) = 1
  /\ \A i \in 1..Len(branches) :
       \E j \in 1..Len(get_tools) : get_tools[j].name = branches[i].name
  /\ CallReturned =>
       /\ IsNone(BranchOf(call.tool_name))
            <=> ~( ~IsNone(call.tool_name)
                   /\ \E j \in 1..Len(get_tools) : get_tools[j].name = Val(call.tool_name) )
       /\ IsNone(BranchOf(call.tool_name))
            <=> TextOf(call.out) = << "Errors: ", "Unknown tool: ", FmtToken(call.tool_name) >>

\* The last tool of the catalog was called on a configured handler and its
\* branch made its request.
C25_Witness ==
  /\ CallReturned
  /\ call.tool_name = Some(get_tools[Len(get_tools)].name)
  /\ Len(call.out.requests) = 1
  /\ call.out.requests[1].verb = "POST"
  /\ call.out.requests[1].body = << "json", "v" >>

\* ---- C26
\* The source ultimate_run_prg_binary takes of an argument bag: the first of
\* prg_data_base64, url, file_path that is given and not empty.
SourceOf(arguments) ==
  LET given(k) == Has(arguments, k) /\ Truthy(arguments[k])
  IN  IF given("prg_data_base64") THEN "base64"
      ELSE IF given("url") THEN "url"
      ELSE IF given("file_path") THEN "file" ELSE "none"

\* The bytes that source yields in an environment, -1 if it fails or is none.
YieldOf(arguments, env) ==
  CASE SourceOf(arguments) = "base64" -> B64Len(arguments["prg_data_base64"])
    [] SourceOf(arguments) = "url" -> IF env.dl.status = 200 THEN env.dl.len ELSE -1
    [] SourceOf(arguments) = "file" -> env.file
    [] OTHER -> -1

\* C26: a returned ultimate_run_prg_binary has asked only the first source
\* given: it has downloaded exactly when that source is the URL.  When that
\* source fails, when none is given, and when it yields fewer than two bytes,
\* the call returns an error and has made no request to the device, whatever
\* the lower sources would yield; when it yields two bytes or more on a
\* configured handler, the call has posted the payload of that source.
C26_SourcePriority ==
  ( CallReturned /\ call.tool_name = Some("ultimate_run_prg_binary") )
  => LET src == SourceOf(call.arguments)
         n == YieldOf(call.arguments, call.env)
         downloads == IF src = "url" THEN DownloadRequest(call.arguments) ELSE << >>
     IN  /\ ~call.out.raised
         /\ Len(call.out.requests) >= Len(downloads)
         /\ SubSeq(call.out.requests, 1, Len(downloads)) = downloads
         /\ \A i \in (Len(downloads) + 1)..Len(call.out.requests) :
              call.out.requests[i].verb = "POST"
         /\ n < 2 => ( call.out.errors /\ call.out.requests = downloads )
         /\ ( n >= 2 /\ ~IsNone(call.api_before) )
              => /\ Len(call.out.requests) = Len(downloads) + 1
                 /\ call.out.requests[Len(downloads) + 1].body = << "prg", src >>

\* Malformed base64 was given along with a URL and a file that would both have
\* yielded a program; the configured handler returned an error and asked nobody.
C26_Witness ==
  /\ CallReturned /\ call.tool_name = Some("ultimate_run_prg_binary")
  /\ ~IsNone(call.api_before)
  /\ call.arguments = [prg_data_base64 |-> "b64:bad", url |-> "dl.example/a.prg",
                       file_path |-> "a.prg"]
  /\ call.env.dl = [status |-> 200, len |-> 2] /\ call.env.file = 2
  /\ call.out.errors /\ call.out.requests = << >>

\* ---- C27
\* The session has accepted a request with id n: a message with that id whose
\* method is a string and none of the notification class.
Requested(c, n) ==
  \E i \in 1..Len(accepted[c]) :
    /\ accepted[c][i].id = Some(n)
    /\ ~IsNone(accepted[c][i].method)
    /\ Val(accepted[c][i].method) \notin NotStr
    /\ ~StartsWithNotifications(Val(accepted[c][i].method))

\* The message events of the stream that carry a response with id n.
Emitted(c, n) ==
  { i \in 1..Len(events[c]) : events[c][i].event = "message" /\ events[c][i].data.id = Some(n) }

\* C27: the stream never carries two responses with the id of one request, and
\* every request accepted by /messages leads to a response with its id on the
\* stream of its session, unless the connection closes.
C27_EveryRequestAnswered ==
  /\ [](\A n \in 1..MaxStreamPosts : Cardinality(Emitted(1, n)) <= 1)
  /\ \A n \in 1..MaxStreamPosts :
       Requested(1, n) ~> ( st[1] = "closed" \/ Emitted(1, n) # {} )

\* ---- C28
\* C28: the step in which handle_messages, resumed from reading a body that is
\* a JSON-RPC object, answers the POST leaves either 'accepted' with the message
\* on the read stream of a registered session, or 404; whatever was done to the
\* registry entry while the body was read.
C28_AcceptedOrNotFound ==
  [][ \A body \in StreamMessages(nposts) :
        ( body.shape = "rpc" /\ PostRead(body) )
        => \/ lastPost'.status = 404 /\ ~lastPost'.enqueued
           \/ /\ lastPost'.status = 200 /\ lastPost'.enqueued
              /\ Val(post).session_id \in DOMAIN sessions'
              /\ \E c \in Conns : /\ sessions'[Val(post).session_id] = c
                                   /\ accepted'[c] = Append(accepted[c], body) ]_vars

\* ---- C29
\* C29: base_url and api_base are both absent, or both set with api_base being
\* base_url followed by "/v1" and base_url not empty and not ending in a slash;
\* and no step takes a connection that is set back to absent.
C29_ConnectionFieldsAgree ==
  /\ []( \/ IsNone(base_url) /\ IsNone(api_base)
         \/ /\ ~IsNone(base_url) /\ ~IsNone(api_base)
            /\ Val(api_base) = Val(base_url) \o << "/", "v1" >>
            /\ Val(base_url) # << >>
            /\ Val(base_url)[Len(Val(base_url))] # "/" )
  /\ [][ ~IsNone(base_url) => ( ~IsNone(base_url') /\ ~IsNone(api_base') ) ]_vars

\* A handler that had a connection was given another by ultimate_set_connection.
C29_Witness ==
  /\ CallReturned /\ call.tool_name = Some("ultimate_set_connection")
  /\ ~IsNone(call.base_before)
  /\ ~IsNone(base_url) /\ base_url # call.base_before

\* ---- C30
\* The process runs as one of the two servers of main: the stdio server, whose
\* caller awaits call_tool, or the web server with its push-stream session and
\* its upload endpoint.
StdioMode == st = [c \in Conns |-> "idle"] /\ nposts = 0 /\ upload = NoUpload
WebMode == call = NoCall /\ seen = {}

\* The uploads made to the web server, and the device's answers to them.
ServerUploads ==
  { UploadRequest("application/octet-stream", "body", d) : d \in { << >>, << "01", "08" >> } }
ServerUploadOutcomes == { o \in DeviceOutcomes : o.status \in { 200, 404 } /\ o.valid = o.json /\ ~o.errs }

NextServer ==
  \/ StdioMode /\ NextTools
  \/ WebMode /\ handle_sse(1, None)
  \/ WebMode /\ StartTaskGroup(1)
  \/ WebMode /\ YieldMessage(1)
  \/ WebMode /\ Dispatch(1)
  \/ WebMode /\ CallReturn(1)
  \/ WebMode /\ Close(1)
  \/ WebMode /\ PostCheck(Some(Uuid4(1)), MaxServerPosts)
  \/ WebMode /\ \E body \in StreamMessages(nposts) : PostRead(body)
  \/ WebMode /\ \E request \in ServerUploads, o \in ServerUploadOutcomes : Upload(request, o)

SpecServer == Init /\ [][NextServer]_vars

\* The step is the execution of an ultimate_set_connection that is given a
\* hostname: by the stdio server's caller, or by the dispatcher of a session.
SetsConnection ==
  \/ /\ call.state = "idle" /\ call'.state = "returned"
     /\ call'.tool_name = Some("ultimate_set_connection")
     /\ Has(call'.arguments, "hostname")
  \/ \E c \in Conns :
       /\ Takes(c) /\ Calls(c, "ultimate_set_connection")
       /\ Has(Parse(Head(read_stream[c])).arguments, "hostname")

\* C30: base_url and api_base change in no step but the execution of an
\* ultimate_set_connection that is given a hostname.  In particular they stay
\* as they are in the step of every other tool call and of a set_connection
\* without hostname, of every other message a dispatcher takes, of every
\* upload, and of every session's opening and closing.
C30_ConnectionFrame ==
  [][ /\ ( base_url' # base_url \/ api_base' # api_base ) => SetsConnection
      /\ ( call.state = "idle" /\ call'.state = "returned" /\ ~SetsConnection )
           => UNCHANGED << base_url, api_base >>
      /\ \A c \in Conns : ( Takes(c) /\ ~SetsConnection ) => UNCHANGED << base_url, api_base >>
      /\ upload' # upload => UNCHANGED << base_url, api_base >>
      /\ ( st' # st \/ sessions' # sessions ) => UNCHANGED << base_url, api_base >> ]_vars

\* A session set the connection and then sent a set_connection without
\* hostname, which was answered; an upload went to the device; the session
\* closed; the connection is the one that was set.
C30_Witness ==
  /\ Len(Taken(1)) = 2 /\ Len(produced[1]) = 2
  /\ Taken(1)[1].name = Some("ultimate_set_connection")
  /\ Has(Taken(1)[1].arguments, "hostname")
  /\ Taken(1)[2].name = Some("ultimate_set_connection")
  /\ ~Has(Taken(1)[2].arguments, "hostname")
  /\ upload.answer.status = 200
  /\ st[1] = "closed"
  /\ base_url = Some(EndpointOf(Taken(1)[1].arguments))

====
